---- MODULE Spec2Model ----
(***************************************************************************)
(* A model of writer-bot's story cog (src/src/writer_bot/stories.py and    *)
(* src/src/writer_bot/utils.py): the title codec of StoryThread, the       *)
(* story-thread updater, the profile updater, and the dispatcher with its  *)
(* in-flight guards, run as asyncio tasks that interleave at their awaits. *)
(*                                                                         *)
(* Text is a sequence of symbols.  A symbol is one character, except that  *)
(* "words" stands for the five letters of the marker's keyword and "a"     *)
(* for any other visible character.                                        *)
(***************************************************************************)
EXTENDS Integers, Sequences, FiniteSets, TLC

(***************************************************************************)
(* Bounds of the model.                                                    *)
(***************************************************************************)
\* the longest thread name enumerated, in pieces (see Pieces)
MaxPieces == 3

\* the longest name of a thread that StoryThread.update is run on, in pieces
MaxThreadPieces == 2

\* the largest raw word count of the range that is rounded count by count
MaxWordcount == 2600

\* the longest history enumerated for the resolver, in messages
MaxMessages == 3

\* the most URLs in the text of one message enumerated for the resolver
MaxUrls == 3

\* the threads of a story forum handed to _generate_content
MaxForum == 3

(***************************************************************************)
(* Text helpers: Python's str.strip, int and str on the symbols above.     *)
(***************************************************************************)
\* the white space of the alphabet: what \s matches and str.strip removes
Whitespace == {" ", "\n"}

DigitChars == <<"0", "1", "2", "3", "4", "5", "6", "7", "8", "9">>

IsDigit(c) == \E i \in 1..Len(DigitChars) : DigitChars[i] = c

DigitValue(c) == (CHOOSE i \in 1..Len(DigitChars) : DigitChars[i] = c) - 1

\* str.lstrip(): only the leading white space goes
lstrip(s) ==
    LET keep == {i \in 1..Len(s) : s[i] \notin Whitespace}
    IN  IF keep = {} THEN <<>>
        ELSE SubSeq(s, CHOOSE i \in keep : \A j \in keep : i <= j, Len(s))

\* str.strip(): the text from its first to its last non-white-space symbol
strip(s) ==
    LET keep == {i \in 1..Len(s) : s[i] \notin Whitespace}
    IN  IF keep = {} THEN <<>>
        ELSE LET lo == CHOOSE i \in keep : \A j \in keep : i <= j
                 hi == CHOOSE i \in keep : \A j \in keep : i >= j
             IN  SubSeq(s, lo, hi)

\* int() of a run of ASCII digits (leading zeros allowed)
RECURSIVE int(_)
int(ds) ==
    IF ds = <<>> THEN 0
    ELSE 10 * int(SubSeq(ds, 1, Len(ds) - 1)) + DigitValue(ds[Len(ds)])

\* str() of a natural number: decimal, no leading zeros
RECURSIVE str(_)
str(n) ==
    IF n < 10 THEN <<DigitChars[n + 1]>>
    ELSE str(n \div 10) \o <<DigitChars[(n % 10) + 1]>>

(***************************************************************************)
(* The title codec: StoryThread._parse_name and the name that              *)
(* StoryThread._set_wordcount writes.                                      *)
(***************************************************************************)
\* s[from..] is white space only (\s* up to the end of the text)
AllWhitespace(s, from) == \A i \in from..Len(s) : s[i] \in Whitespace

\* the last index of the greedy digit run [0-9]* that starts at p (p-1: none)
DigitRunEnd(s, p) ==
    CHOOSE e \in (p - 1)..Len(s) :
        /\ \A i \in p..e : IsDigit(s[i])
        /\ e = Len(s) \/ ~IsDigit(s[e + 1])

\* \[([0-9]+) words\] tried at index p: the index of its "]", or 0
MarkerEnd(s, p) ==
    IF p > Len(s) \/ s[p] # "[" THEN 0
    ELSE LET e == DigitRunEnd(s, p + 1)
         IN  IF /\ e >= p + 1
                /\ e + 3 <= Len(s)
                /\ s[e + 1] = " "
                /\ s[e + 2] = "words"
                /\ s[e + 3] = "]"
             THEN e + 3 ELSE 0

NoMatch == [matched |-> FALSE, group1 |-> <<>>, group3 |-> <<>>]

\* the same pattern with a greedy group 1, (.*) for (.*?)
re_fullmatch_greedy(name) ==
    LET Dot(L) == \A i \in 1..L : name[i] # "\n"
        WithMarker(L) ==
            /\ MarkerEnd(name, L + 1) # 0
            /\ AllWhitespace(name, MarkerEnd(name, L + 1) + 1)
        Without(L) == AllWhitespace(name, L + 1)
        Ls == {L \in 0..Len(name) : Dot(L) /\ (WithMarker(L) \/ Without(L))}
    IN  IF Ls = {} THEN NoMatch
        ELSE LET L == CHOOSE x \in Ls : \A y \in Ls : x >= y
             IN  [matched |-> TRUE,
                  group1 |-> SubSeq(name, 1, L),
                  group3 |-> IF WithMarker(L)
                             THEN SubSeq(name, L + 2, MarkerEnd(name, L + 1) - 3)
                             ELSE <<>>]

\* re.fullmatch(r"(.*?)(\[([0-9]+) words\])?\s*", name): the lazy group 1
\* grows one symbol at a time ("." never matches a line break); at each
\* length the marker is tried first, then its absence; the rest must be
\* white space up to the end.  An unset group 3 is the empty text.
re_fullmatch(name) ==
    LET Dot(L) == \A i \in 1..L : name[i] # "\n"
        WithMarker(L) ==
            /\ MarkerEnd(name, L + 1) # 0
            /\ AllWhitespace(name, MarkerEnd(name, L + 1) + 1)
        Without(L) == AllWhitespace(name, L + 1)
        Ls == {L \in 0..Len(name) : Dot(L) /\ (WithMarker(L) \/ Without(L))}
    IN  IF Ls = {} THEN NoMatch
        ELSE LET L == CHOOSE x \in Ls : \A y \in Ls : x <= y
             IN  [matched |-> TRUE,
                  group1 |-> SubSeq(name, 1, L),
                  group3 |-> IF WithMarker(L)
                             THEN SubSeq(name, L + 2, MarkerEnd(name, L + 1) - 3)
                             ELSE <<>>]

\* StoryThread._parse_name: raised is the DiscordException of a failed match
_parse_name(name) ==
    LET match == re_fullmatch(name)
    IN  IF ~match.matched
        THEN [raised |-> TRUE, title |-> <<>>, wordcount |-> 0]
        ELSE [raised |-> FALSE,
              title |-> IF match.group1 # <<>> THEN strip(match.group1) ELSE <<>>,
              wordcount |-> IF match.group3 # <<>> THEN int(match.group3) ELSE 0]

\* a title written without the brackets of the marker
new_title_unbracketed(title, wordcount) ==
    IF wordcount > 0
    THEN title \o <<" ">> \o str(wordcount) \o <<" ", "words">>
    ELSE title

\* a title that gets its marker also for the count 0
new_title_always_marked(title, wordcount) ==
    title \o <<" ", "[">> \o str(wordcount) \o <<" ", "words", "]">>

\* the title StoryThread._set_wordcount passes to edit(name=...)
new_title(title, wordcount) ==
    IF wordcount > 0
    THEN title \o <<" ", "[">> \o str(wordcount) \o <<" ", "words", "]">>
    ELSE title

(***************************************************************************)
(* The thread names enumerated: up to MaxPieces pieces, a piece being one  *)
(* symbol or a whole marker.                                               *)
(***************************************************************************)
Marker(n) == <<"[">> \o str(n) \o <<" ", "words", "]">>

Pieces ==
    {<<c>> : c \in {"a", " ", "\n", "[", "]", "1", "words"}}
        \cup {Marker(0), Marker(1), Marker(100)}

RECURSIVE Concat(_)
Concat(ps) == IF ps = <<>> THEN <<>> ELSE ps[1] \o Concat(Tail(ps))

NamesUpTo(n) ==
    UNION {{Concat(ps) : ps \in [1..k -> Pieces]} : k \in 0..n}

Names == NamesUpTo(MaxPieces)

ThreadNames == NamesUpTo(MaxThreadPieces)

\* the counts handed to the codec directly
Counts == {0, 1, 100, 200}

(***************************************************************************)
(* StoryFile: eligibility, counting and rounding.                          *)
(***************************************************************************)
WORDCOUNT_CONTENT_TYPES == {"text/plain", "application/pdf"}

WORDCOUNT_MAX_SIZE == 30 * 1024 * 1024

\* a size of None (content length unknown)
NoSize == -1

\* a can_wordcount that turns away a file of exactly the largest size
can_wordcount_strict(content_type, size) ==
    /\ content_type \in WORDCOUNT_CONTENT_TYPES
    /\ (size = NoSize \/ size = 0 \/ size < WORDCOUNT_MAX_SIZE)

\* StoryFile.can_wordcount: "not self._size" holds for None and for 0
can_wordcount(content_type, size) ==
    /\ content_type \in WORDCOUNT_CONTENT_TYPES
    /\ (size = NoSize \/ size = 0 \/ size <= WORDCOUNT_MAX_SIZE)

\* a rounding whose ties go up
py_round_half_up(n, m) ==
    LET q == n \div m
        r == n % m
    IN  IF 2 * r < m THEN q * m ELSE (q + 1) * m

\* Python's round(n, -k) on an int, m = 10^k: to the nearest multiple of m,
\* a tie going to the even multiple
py_round(n, m) ==
    LET q == n \div m
        r == n % m
    IN  IF 2 * r < m THEN q * m
        ELSE IF 2 * r > m THEN (q + 1) * m
        ELSE IF q % 2 = 0 THEN q * m ELSE (q + 1) * m

\* a _rounded_wordcount without the branch for the short files
_rounded_wordcount_nearest(wordcount) ==
    IF wordcount < 1000 THEN py_round(wordcount, 100)
    ELSE py_round(wordcount, 1000)

\* a _rounded_wordcount without the branch for the thousands
_rounded_wordcount_hundreds(wordcount) ==
    IF wordcount < 100 THEN 100 ELSE py_round(wordcount, 100)

\* a _rounded_wordcount that hands the raw count on
_rounded_wordcount_unrounded(wordcount) == wordcount

\* StoryFile._rounded_wordcount
_rounded_wordcount(wordcount) ==
    IF wordcount < 100 THEN 100
    ELSE IF wordcount < 1000 THEN py_round(wordcount, 100)
    ELSE py_round(wordcount, 1000)

\* StoryFile._raw_wordcount on downloaded data [utf8, pdf, words, status]:
\* utf8 says the bytes decode as UTF-8, pdf that pdfminer can extract their
\* text
_raw_wordcount(content_type, data) ==
    IF content_type = "text/plain"
    THEN IF data.utf8 THEN [exc |-> "none", value |-> data.words]
         ELSE [exc |-> "UnicodeDecodeError", value |-> 0]
    ELSE IF content_type = "application/pdf"
    THEN IF data.pdf THEN [exc |-> "none", value |-> data.words]
         ELSE [exc |-> "DiscordException", value |-> 0]
    ELSE [exc |-> "DiscordException", value |-> 0]

\* what a download answers: the bytes, and for a GET the status of the
\* response they came with
Text(n) == [utf8 |-> TRUE, pdf |-> FALSE, words |-> n, status |-> 200]

Pdf(n) == [utf8 |-> FALSE, pdf |-> TRUE, words |-> n, status |-> 200]

Garbage == [utf8 |-> FALSE, pdf |-> FALSE, words |-> 0, status |-> 200]

\* the same bytes in a response of another status
Answered(status, data) == [data EXCEPT !.status = status]

Link(mime, size, data) ==
    [kind |-> "link", content_type |-> <<mime>>, size |-> size, data |-> data]

Attachment(ct, size, data) ==
    [kind |-> "attachment", content_type |-> ct, size |-> size, data |-> data]

GoogleDoc(data) ==
    [kind |-> "google doc", content_type |-> <<>>, size |-> NoSize,
     data |-> data]

\* The content type a candidate is judged by.  A candidate of a message is
\* [kind, content_type, size, data]; content_type is <<>> (none), <<mime>>
\* or <<mime, parameters>>.  Attachment.__init__ keeps the part before ";",
\* aiohttp's response.content_type is the mime type, GoogleDoc is text/plain.
candidate_content_type(c) ==
    IF c.kind = "google doc" THEN "text/plain"
    ELSE IF c.content_type = <<>> THEN ""
    ELSE c.content_type[1]

candidate_size(c) == IF c.kind = "google doc" THEN NoSize ELSE c.size

candidate_can_wordcount(c) ==
    can_wordcount(candidate_content_type(c), candidate_size(c))

\* A URL of a message's text is [scheme, hostname, parts, content_type, size,
\* data]: its address, the content type and length a HEAD request to it
\* answers, and what a GET (for a Google document: the export) returns.
\* urlextract's find_urls(content, only_unique=True): the URLs of the text in
\* the order of their first occurrence
RECURSIVE find_urls(_)
find_urls(content) ==
    IF content = <<>> THEN <<>>
    ELSE LET rest == find_urls(SubSeq(content, 1, Len(content) - 1))
             u == content[Len(content)]
         IN  IF \E k \in 1..Len(rest) : rest[k] = u THEN rest
             ELSE Append(rest, u)

\* GoogleDoc.from_url: the URL is one of a Google document
GoogleDoc_from_url(u) ==
    ~(\/ u.scheme # "https"
      \/ u.hostname # "docs.google.com"
      \/ Len(u.parts) < 3
      \/ u.parts[1] # "document"
      \/ u.parts[2] # "d")

\* what a URL is tried as in from_message: a Google document, else a link
from_url(u) ==
    IF GoogleDoc_from_url(u) THEN GoogleDoc(u.data)
    ELSE Link(u.content_type, u.size, u.data)

\* a from_message that tries the URLs before the attachments
candidates_urls_first(m) ==
    LET urls == find_urls(m.content)
    IN  [k \in 1..Len(urls) |-> from_url(urls[k])] \o m.attachments

\* StoryFile.from_message: the candidates of message m in the order they are
\* tried, the attachments and then the URLs of the text
candidates(m) ==
    LET urls == find_urls(m.content)
    IN  m.attachments \o [k \in 1..Len(urls) |-> from_url(urls[k])]

\* what the transport of a download may raise: attachment.read() a
\* DiscordException, the GET of aiohttp a ClientError or an OSError
Transport(c) ==
    IF c.kind = "attachment" THEN {"none", "DiscordException"}
    ELSE {"none", "ClientError", "OSError"}

\* response.raise_for_status(): aiohttp raises ClientResponseError, a
\* ClientError, when the status is 400 or more
raise_for_status(status) == IF status >= 400 THEN "ClientError" ELSE "none"

\* Attachment._download, Link._download, GoogleDoc._download of candidate c,
\* the transport having raised o: [exc, data]
_download(c, o) ==
    IF c.kind = "attachment" THEN [exc |-> o, data |-> c.data]
    ELSE LET e == IF o # "none" THEN o ELSE raise_for_status(c.data.status)
         IN  [exc |-> IF e \in {"ClientError", "OSError"}
                      THEN "DiscordException" ELSE e,
              data |-> c.data]

NoPlace == [found |-> "none", i |-> 0, j |-> 0]

\* a _find_wordcount_file that does not look at the author
RECURSIVE _find_wordcount_file_of_anyone(_, _, _, _)
_find_wordcount_file_of_anyone(h, owner, i, j) ==
    IF i > Len(h) THEN NoPlace
    ELSE IF j > Len(candidates(h[i]))
    THEN _find_wordcount_file_of_anyone(h, owner, i + 1, 1)
    ELSE IF candidates(h[i])[j].kind = "link"
    THEN [found |-> "probe", i |-> i, j |-> j]
    ELSE IF candidate_can_wordcount(candidates(h[i])[j])
    THEN [found |-> "source", i |-> i, j |-> j]
    ELSE _find_wordcount_file_of_anyone(h, owner, i, j + 1)

\* StoryThread._find_wordcount_file with StoryFile.from_message, run from
\* candidate j of message i up to its next await or its return: messages
\* oldest first, only the owner's; in a message the candidates in their
\* order.  "source": candidate (i, j) is returned; "probe": Link.from_url
\* awaits the HEAD of (i, j); "none": the history is exhausted.  The
\* messages of other authors are passed over up to the owner's next one.
RECURSIVE _find_wordcount_file(_, _, _, _)
_find_wordcount_file(h, owner, i, j) ==
    IF i > Len(h) THEN NoPlace
    ELSE IF h[i].author # owner \/ j > Len(candidates(h[i]))
    THEN LET later == {n \in (i + 1)..Len(h) : h[n].author = owner}
         IN  IF later = {} THEN NoPlace
             ELSE _find_wordcount_file(
                      h, owner, CHOOSE n \in later : \A m \in later : n <= m, 1)
    ELSE IF candidates(h[i])[j].kind = "link"
    THEN [found |-> "probe", i |-> i, j |-> j]
    ELSE IF candidate_can_wordcount(candidates(h[i])[j])
    THEN [found |-> "source", i |-> i, j |-> j]
    ELSE _find_wordcount_file(h, owner, i, j + 1)

(***************************************************************************)
(* The forums.  Story threads are 1..NumThreads, a thread's id is also its *)
(* creation time; the profile forum holds the profile threads.             *)
(***************************************************************************)
\* the number of story threads
NumThreads == 2

\* the number of handler invocations (asyncio tasks) of one behaviour
MaxTasks == 2

StoryThreads == 1..NumThreads

Tasks == 1..MaxTasks

\* users 1 and 2 own story and profile threads, user 3 owns nothing
Users == {1, 2}

OtherUser == 3

\* thread.owner_id of a story thread
owner_id(th) == IF th % 3 = 0 THEN 2 ELSE 1

\* the profile forum: user 1 opened thread 11 and later thread 13
ProfileForum ==
    {[id |-> 11, owner_id |-> 1, created_at |-> 11],
     [id |-> 12, owner_id |-> 2, created_at |-> 12],
     [id |-> 13, owner_id |-> 1, created_at |-> 13]}

ProfileThreads == {p.id : p \in ProfileForum}

AllThreads == StoryThreads \cup ProfileThreads

NoThread == 0

NoUser == 0

\* the id of the bot's own user
BotUser == 9

\* a web address, with the content type and length its HEAD answers
WebUrl(file, mime, size, data) ==
    [scheme |-> "http", hostname |-> "example.com", parts |-> <<file>>,
     content_type |-> mime, size |-> size, data |-> data]

\* the address of a Google document, with the text its export returns
DocUrl(id, data) ==
    [scheme |-> "https", hostname |-> "docs.google.com",
     parts |-> <<"document", "d", id, "edit">>,
     content_type |-> "text/html", size |-> NoSize, data |-> data]

TextUrl == WebUrl("test.txt", "text/plain", 10, Text(3))

HtmlUrl == WebUrl("page", "text/html", NoSize, Text(50))

Message(author, attachments, content) ==
    [author |-> author, attachments |-> attachments, content |-> content]

\* a thread whose owner posted a link to a three-word plain-text file
LinkHistory(u) == <<Message(u, <<>>, <<TextUrl>>)>>

\* a thread where someone else posted a countable file first; the owner
\* posted a picture, a web page and then a text attachment of 160 words
MixedHistory(u) ==
    <<Message(OtherUser, <<Attachment(<<"text/plain">>, 10, Text(7))>>, <<>>),
      Message(u, <<Attachment(<<"image/png">>, 10, Garbage)>>, <<HtmlUrl>>),
      Message(u, <<Attachment(<<"text/plain", "charset=utf-8">>, 0,
                              Text(160))>>, <<>>)>>

\* a thread whose owner attached a text/plain file that is not valid UTF-8
GarbageHistory(u) ==
    <<Message(u, <<Attachment(<<"text/plain">>, 10, Garbage)>>, <<>>)>>

\* a thread whose owner posted nothing countable
EmptyHistory(u) == <<Message(u, <<>>, <<HtmlUrl>>)>>

\* a thread whose owner attached a text/plain file of 2500 words
LongStoryHistory(u) ==
    <<Message(u, <<Attachment(<<"text/plain">>, 20, Text(2500))>>, <<>>)>>

Histories(u) ==
    {LinkHistory(u), MixedHistory(u), GarbageHistory(u), EmptyHistory(u),
     LongStoryHistory(u)}

(***************************************************************************)
(* State.                                                                  *)
(***************************************************************************)
VARIABLES
    inp, out,                  \* a direct call of a pure function
    name, archived,            \* the platform: thread name, archived flag
    history,                   \* the platform: a story thread's messages
    messages,                  \* the platform: a profile thread's
                               \* messages, oldest first, [author, content]
    _processing_stories,       \* Stories._processing_stories
    _processing_profiles,      \* Stories._processing_profiles
    _processing_refresh,       \* Stories._processing_refresh
    task,                      \* the asyncio tasks: one per invocation
    running,                   \* the task the event loop is running, or 0
    name0,                     \* history variable: the names at the start
    stats,                     \* history variable: per story thread, the
                               \* rename calls that direct calls issued,
                               \* whether a direct call of update returned
                               \* and whether one raised
    _log_context,              \* utils._log_context: the value the
                               \* ContextVar has in each context
    log,                       \* the record the log handler got last
    files,                     \* the temporary files on the disk
    events                     \* the thread updates the platform has yet to
                               \* dispatch to on_thread_update, per thread

vars ==
    <<inp, out, name, archived, history, messages, _processing_stories,
      _processing_profiles, _processing_refresh, task, running, name0, stats,
      _log_context, log, files, events>>

util_vars == <<_log_context, log, files, events>>

\* what a call of the platform that changes a thread leaves alone
call_vars == <<inp, out, _log_context, log, files>>

pure_vars == <<inp, out, util_vars>>

bot_vars ==
    <<name, archived, history, messages, _processing_stories,
      _processing_profiles, _processing_refresh, task, running, name0, stats>>

\* the message _find_message returns: its place in the thread and its
\* content as fetched; NoMessage is None
NoMessage == [exists |-> FALSE, index |-> 0, content |-> <<>>]

\* a task that has not started; the fields are the locals of the coroutines
\* (and, marked so, history fields that no code reads)
IdleTask ==
    [kind |-> "idle",           \* the entry point of the invocation
     pc |-> "idle",             \* where the task stands
     thread |-> NoThread,       \* process_story / StoryThread: thread
     user |-> NoUser,           \* process_profile: user_id
     threads |-> <<>>,          \* process_all_stories: threads still to do
     failures |-> 0,            \* process_all_stories: failures
     i |-> 0, j |-> 0,          \* the candidate under resolution
     wordcount |-> 0,           \* _set_wordcount: wordcount
     title |-> <<>>,            \* _set_wordcount: the parsed title
     new_name |-> <<>>,         \* _set_wordcount: the name passed to edit
     target |-> NoThread,       \* unarchive_thread: thread
     was_archived |-> FALSE,    \* unarchive_thread: archived
     message |-> NoMessage,     \* Profile.update: message
     content |-> <<>>,          \* Profile.update: content
     exc |-> "none",            \* the exception that is propagating
     response |-> "none",       \* the answer sent to the interaction
     guarded |-> FALSE,         \* history: this process_story holds its id
     dropped |-> NoThread,      \* history: the id process_story found held
     listed |-> <<>>,           \* history: what all_forum_threads returned
     attempted |-> {},          \* history: threads handed to process_story
     requests |-> <<>>,         \* history: the probes and downloads of update
     failed |-> FALSE,          \* history: a call awaited for this thread or
                                \* user raised
     calls |-> <<>>]            \* history: the calls of unarchive_thread

\* the places where a task is suspended in an await
AwaitPcs ==
    {"await_history", "await_head", "await_download", "await_unarchive",
     "await_edit", "await_rearchive", "await_find_profile",
     "await_find_message", "await_generate_content",
     "await_message_edit", "await_send", "await_warning", "await_defer",
     "await_all_forum_threads", "await_respond", "await_refresh_error"}

\* the entry points that run process_story
StoryKinds == {"story_event", "refresh", "refresh_cron"}

RefreshKinds == {"refresh", "refresh_cron"}

NoStats == [renames |-> 0, returned |-> FALSE, raised |-> FALSE]

\* the entry points of a direct call of one method
DirectKinds == {"StoryThread.update", "_set_wordcount", "Profile.update"}

\* the locals of a callee that has ended are gone
Forget(t) ==
    [t EXCEPT !.i = 0, !.j = 0, !.wordcount = 0, !.title = <<>>,
              !.new_name = <<>>, !.target = NoThread, !.was_archived = FALSE,
              !.message = NoMessage, !.content = <<>>, !.calls = <<>>,
              !.requests = <<>>]

\* what is left of a task that has ended: of a handler the thread it was
\* dropped for, of a direct call its argument, the platform calls it made
\* and its outcome
Finished(t) ==
    IF t.kind \in DirectKinds
    THEN [IdleTask EXCEPT !.kind = t.kind, !.pc = "done",
                          !.thread = t.thread, !.user = t.user,
                          !.wordcount = t.wordcount, !.calls = t.calls,
                          !.requests = t.requests,
                          !.failed = t.failed, !.exc = t.exc]
    ELSE [IdleTask EXCEPT !.kind = t.kind, !.pc = "done",
                          !.dropped = t.dropped]

\* the call that task t awaited has raised
Failed(t) == [t EXCEPT !.failed = TRUE]

\* task k goes on as record r: it keeps the event loop until it awaits or ends
Step(k, r) ==
    /\ task' = [task EXCEPT ![k] = IF r.pc = "done" THEN Finished(r) ELSE r]
    /\ running' = IF r.pc \in AwaitPcs \cup {"done"} THEN 0 ELSE k

\* task k is suspended at the await pc, and the event loop is free
Awaiting(k, pc) == running = 0 /\ task[k].pc = pc

\* task k is running and stands at pc
At(k, pc) == running = k /\ task[k].pc = pc

\* a call of the platform or of HTTP returns, or raises; where the thread
\* updates are listened to, the platform rejects a bounded number of edits,
\* and no call raises once these faults are used up
Outcomes ==
    IF events.faults = 0 THEN {"none"} ELSE {"none", "DiscordException"}

\* what the download of candidate c may raise
DownloadOutcomes(c) == IF events.faults = 0 THEN {"none"} ELSE Transport(c)



(***************************************************************************)
(* Direct calls of the pure functions.                                     *)
(***************************************************************************)
NoOutput == [fn |-> "none", raised |-> FALSE, title |-> <<>>, wordcount |-> 0]

\* nothing logged yet: every context holds the default of _log_context, ""
NoRecord == [task |-> 0, text |-> <<>>, active |-> <<>>, msg |-> ""]

\* no handler listens to the thread updates that the bot's own edits raise
Unheard ==
    [heard |-> FALSE, external |-> 0, faults |-> 1,
     pending |-> [th \in AllThreads |-> 0]]

\* the gateway after a call of message.edit that ended with o
message_changed(o) ==
    IF o # "none" /\ events.heard
    THEN [events EXCEPT !.faults = @ - 1]
    ELSE events

\* the gateway after a call of thread.edit on thread th that ended with o: a
\* thread that was changed raises one thread-update event
thread_changed(th, o) ==
    IF o = "none" /\ events.heard
    THEN [events EXCEPT !.pending[th] = @ + 1]
    ELSE message_changed(o)

\* no context entered, nothing logged, no temporary file, no event listened to
UtilIdle ==
    /\ _log_context = [k \in Tasks |-> <<>>]
    /\ log = NoRecord
    /\ files = {}
    /\ events = Unheard

PureIdle ==
    /\ inp = [name |-> <<>>, wordcount |-> 0] /\ out = NoOutput
    /\ UtilIdle

\* StoryThread(thread)._parse_name() on a thread named inp.name
ParseName ==
    /\ out.fn = "none"
    /\ out' = [fn |-> "_parse_name"] @@ _parse_name(inp.name)
    /\ UNCHANGED <<inp, util_vars, bot_vars>>

\* the name written for title inp.name and count inp.wordcount, parsed back
FormatThenParse ==
    /\ out.fn = "none"
    /\ out' = [fn |-> "roundtrip"]
                @@ _parse_name(new_title(inp.name, inp.wordcount))
    /\ UNCHANGED <<inp, util_vars, bot_vars>>

(***************************************************************************)
(* The platform's view of the forums.                                      *)
(***************************************************************************)
\* the elements of a set of numbers, ascending
RECURSIVE Ascending(_)
Ascending(S) ==
    IF S = {} THEN <<>>
    ELSE LET m == CHOOSE x \in S : \A y \in S : x <= y
         IN  <<m>> \o Ascending(S \ {m})

\* utils.all_forum_threads: forum.threads (the active ones), then the
\* archived ones
all_forum_threads(forum) ==
    Ascending({th \in forum : ~archived[th]})
        \o Ascending({th \in forum : archived[th]})

\* the thread of the profile forum with this id
ProfileThread(id) == CHOOSE p \in ProfileForum : p.id = id

\* a _find_profile that keeps the first thread of the user it meets
RECURSIVE _find_profile_first(_, _, _)
_find_profile_first(threads, user, found) ==
    IF threads = <<>> THEN found
    ELSE LET thread == ProfileThread(Head(threads))
         IN  _find_profile_first(
                 Tail(threads), user,
                 IF thread.owner_id = user /\ found = NoThread
                 THEN thread.id ELSE found)

\* Profile._find_profile: the loop over the threads, found (the code's out) being the thread
\* kept so far
RECURSIVE _find_profile(_, _, _)
_find_profile(threads, user, found) ==
    IF threads = <<>> THEN found
    ELSE LET thread == ProfileThread(Head(threads))
         IN  _find_profile(
                 Tail(threads), user,
                 IF /\ thread.owner_id = user
                    /\ \/ found = NoThread
                       \/ thread.created_at < ProfileThread(found).created_at
                 THEN thread.id ELSE found)

\* a _find_message that returns the newest message of the bot
_find_message_newest(h) ==
    LET own == {i \in 1..Len(h) : h[i].author = BotUser}
    IN  IF own = {} THEN NoMessage
        ELSE LET i == CHOOSE x \in own : \A y \in own : x >= y
             IN  [exists |-> TRUE, index |-> i, content |-> h[i].content]

\* Profile._find_message on the messages h of a thread, oldest first: the
\* first one whose author is the bot
_find_message(h) ==
    LET own == {i \in 1..Len(h) : h[i].author = BotUser}
    IN  IF own = {} THEN NoMessage
        ELSE LET i == CHOOSE x \in own : \A y \in own : x <= y
             IN  [exists |-> TRUE, index |-> i, content |-> h[i].content]

jump_url(th) == <<"url">> \o str(th)

\* a story thread as Profile sees it
Thread(th) ==
    [id |-> th, owner_id |-> owner_id(th), created_at |-> th,
     name |-> name[th]]

\* all_forum_threads(self._story_forum)
_story_forum ==
    LET listing == all_forum_threads(StoryThreads)
    IN  [k \in 1..Len(listing) |-> Thread(listing[k])]

\* a sort that puts the oldest thread first
RECURSIVE sort_ascending(_)
sort_ascending(stories) ==
    IF stories = <<>> THEN <<>>
    ELSE LET x == Head(stories)
             rest == sort_ascending(Tail(stories))
             before == {n \in 0..Len(rest) :
                           \A i \in 1..n : rest[i].created_at < x.created_at}
             n == CHOOSE a \in before : \A b \in before : a >= b
         IN  SubSeq(rest, 1, n) \o <<x>> \o SubSeq(rest, n + 1, Len(rest))

\* stories.sort(key=created_at, reverse=True): newest first, threads of
\* equal creation time in the order they had
RECURSIVE sort_reverse(_)
sort_reverse(stories) ==
    IF stories = <<>> THEN <<>>
    ELSE LET x == Head(stories)
             rest == sort_reverse(Tail(stories))
             before == {n \in 0..Len(rest) :
                           \A i \in 1..n : rest[i].created_at > x.created_at}
             n == CHOOSE a \in before : \A b \in before : a >= b
         IN  SubSeq(rest, 1, n) \o <<x>> \o SubSeq(rest, n + 1, Len(rest))

RECURSIVE story_lines(_)
story_lines(stories) ==
    IF stories = <<>> THEN <<>>
    ELSE <<"\n", "* [">> \o Head(stories).name \o <<"](">>
            \o jump_url(Head(stories).id) \o <<")">>
            \o story_lines(Tail(stories))

\* Profile._generate_content for the threads of the story forum as
\* all_forum_threads lists them: the user's stories, newest first
_generate_content(forum, user) ==
    LET stories == sort_reverse(SelectSeq(forum, LAMBDA t : t.owner_id = user))
    IN  IF stories = <<>>
        THEN <<"This author hasn't posted any stories yet. Links to the stories will appear here if they do.">>
        ELSE <<"Stories by this author:", "\n">> \o story_lines(stories)

(***************************************************************************)
(* Where a coroutine goes on when a callee ends.                           *)
(***************************************************************************)
\* a refresh that answers with the success response whatever it counted
NextThread_success(t) ==
    IF t.threads # <<>>
    THEN [t EXCEPT !.thread = Head(t.threads), !.threads = Tail(t.threads),
                   !.failed = FALSE, !.pc = "process_story"]
    ELSE IF t.kind = "refresh"
    THEN [t EXCEPT !.thread = NoThread, !.failed = FALSE,
                   !.pc = "await_respond", !.response = "success"]
    ELSE [t EXCEPT !.thread = NoThread, !.failed = FALSE,
                   !.pc = "refresh_finally"]

\* process_all_stories: the next thread of the loop, or its end: the manual
\* refresh answers its invoker, the scheduled one only resets the flag
NextThread(t) ==
    IF t.threads # <<>>
    THEN [t EXCEPT !.thread = Head(t.threads), !.threads = Tail(t.threads),
                   !.failed = FALSE, !.pc = "process_story"]
    ELSE IF t.kind = "refresh"
    THEN [t EXCEPT !.thread = NoThread, !.failed = FALSE,
                   !.pc = "await_respond",
                   !.response = IF t.failures > 0 THEN "error" ELSE "success"]
    ELSE [t EXCEPT !.thread = NoThread, !.failed = FALSE,
                   !.pc = "refresh_finally"]

\* process_story is over, t.exc propagating: an event handler ends; in
\* process_all_stories a DiscordException is caught and counted, any other
\* exception leaves the loop
StoryReturns(t) ==
    IF t.kind = "story_event" THEN [t EXCEPT !.pc = "done"]
    ELSE IF t.exc = "none" THEN NextThread(t)
    ELSE IF t.exc = "DiscordException"
    THEN NextThread([t EXCEPT !.failures = @ + 1, !.exc = "none"])
    ELSE [t EXCEPT !.pc = "refresh_finally"]

\* process_profile is over, t.exc propagating: back in process_story, whose
\* finally clause runs next, or the end of an event handler
ProfileReturns(t) ==
    IF t.kind \in StoryKinds THEN [t EXCEPT !.pc = "process_story_finally"]
    ELSE [t EXCEPT !.pc = "done"]

\* Profile.update is over with exception e (none: it returned)
ProfileUpdateEnds(t, e) ==
    IF t.kind = "Profile.update" THEN [t EXCEPT !.exc = e, !.pc = "done"]
    ELSE [t EXCEPT !.exc = e, !.pc = "process_profile_finally"]

\* a process_story that goes on to process_profile whether or not
\* StoryThread.update raised
UpdateEnds_then_profile(t, e) ==
    IF t.kind \in DirectKinds THEN [t EXCEPT !.exc = e, !.pc = "done"]
    ELSE [t EXCEPT !.exc = e, !.user = owner_id(t.thread),
                   !.pc = "process_profile"]

\* a process_story without "finally": an exception of StoryThread.update
\* leaves the handler at once
UpdateEnds_without_finally(t, e) ==
    IF t.kind \in DirectKinds THEN [t EXCEPT !.exc = e, !.pc = "done"]
    ELSE IF e = "none"
    THEN [t EXCEPT !.user = owner_id(t.thread), !.pc = "process_profile"]
    ELSE [t EXCEPT !.exc = e, !.pc = "done"]

\* StoryThread.update is over with exception e (none: it returned, and
\* process_story calls process_profile for the thread's owner)
UpdateEnds(t, e) ==
    IF t.kind \in DirectKinds THEN [t EXCEPT !.exc = e, !.pc = "done"]
    ELSE IF e = "none"
    THEN [t EXCEPT !.user = owner_id(t.thread), !.pc = "process_profile"]
    ELSE [t EXCEPT !.exc = e, !.pc = "process_story_finally"]

\* the block of unarchive_thread is left with exception e
ScopeEnds(t, e) ==
    IF t.target \in StoryThreads THEN UpdateEnds(t, e)
    ELSE ProfileUpdateEnds(t, e)

\* "async with utils.unarchive_thread(thread)" is entered for a call at pc
unarchive_thread(t, thread, pc) ==
    [t EXCEPT !.target = thread, !.was_archived = archived[thread],
              !.calls = <<>>,
              !.pc = IF archived[thread] THEN "await_unarchive" ELSE pc]

\* a _set_wordcount that takes a name it cannot parse for the title
_set_wordcount_unparsed(t, thread, wordcount) ==
    LET parsed == _parse_name(name[thread])
        title == IF parsed.raised THEN name[thread] ELSE parsed.title
    IN  IF ~parsed.raised /\ wordcount = parsed.wordcount
        THEN UpdateEnds([t EXCEPT !.wordcount = wordcount,
                                  !.title = title, !.calls = <<>>],
                        "none")
        ELSE unarchive_thread(
                 [t EXCEPT !.wordcount = wordcount, !.title = title,
                           !.new_name = new_title(title, wordcount)],
                 thread, "await_edit")

\* a _set_wordcount that renames without comparing the counts
_set_wordcount_always(t, thread, wordcount) ==
    LET parsed == _parse_name(name[thread])
    IN  IF parsed.raised
        THEN UpdateEnds([t EXCEPT !.wordcount = wordcount], "DiscordException")
        ELSE unarchive_thread(
                 [t EXCEPT !.wordcount = wordcount, !.title = parsed.title,
                           !.new_name = new_title(parsed.title, wordcount)],
                 thread, "await_edit")

\* StoryThread._set_wordcount up to its first await or its return
_set_wordcount(t, thread, wordcount) ==
    LET parsed == _parse_name(name[thread])
    IN  IF parsed.raised
        THEN UpdateEnds([t EXCEPT !.wordcount = wordcount], "DiscordException")
        ELSE IF wordcount = parsed.wordcount
        THEN UpdateEnds([t EXCEPT !.wordcount = wordcount,
                                  !.title = parsed.title, !.calls = <<>>],
                        "none")
        ELSE unarchive_thread(
                 [t EXCEPT !.wordcount = wordcount, !.title = parsed.title,
                           !.new_name = new_title(parsed.title, wordcount)],
                 thread, "await_edit")

\* a request of StoryThread.update for candidate (i, j): the HEAD of
\* Link.from_url, or the _download of the source
Request(method, i, j) == [method |-> method, i |-> i, j |-> j]

\* story.wordcount() starts the download of the source (i, j)
Download(t, i, j) ==
    [t EXCEPT !.i = i, !.j = j, !.pc = "await_download",
              !.requests = Append(@, Request("download", i, j))]

\* discord.py, Messageable.history(*, limit=100, ...): the messages that
\* are fetched when the caller names no limit
DefaultLimit == 100

\* thread.history(limit=limit, oldest_first=True) of the messages h
history_oldest_first(h, limit) ==
    IF Len(h) <= limit THEN h ELSE SubSeq(h, 1, limit)

\* an update for which a thread without a source is an error
Resolve_or_raise(t, i, j) ==
    LET th == t.thread
        place == _find_wordcount_file(
                     history_oldest_first(history[th], DefaultLimit),
                     owner_id(th), i, j)
    IN  IF place.found = "none" THEN UpdateEnds(t, "DiscordException")
        ELSE IF place.found = "probe"
        THEN [t EXCEPT !.i = place.i, !.j = place.j, !.pc = "await_head",
                       !.requests = Append(@, Request("HEAD", place.i, place.j))]
        ELSE Download(t, place.i, place.j)

\* a resolution that gets a link to find out whether it can be counted
Resolve_by_download(t, i, j) ==
    LET th == t.thread
        place == _find_wordcount_file(
                     history_oldest_first(history[th], DefaultLimit),
                     owner_id(th), i, j)
    IN  IF place.found = "none" THEN UpdateEnds(t, "none")
        ELSE Download(t, place.i, place.j)

\* StoryThread._find_wordcount_file goes on from candidate (i, j)
Resolve(t, i, j) ==
    LET th == t.thread
        place == _find_wordcount_file(
                     history_oldest_first(history[th], DefaultLimit),
                     owner_id(th), i, j)
    IN  IF place.found = "none" THEN UpdateEnds(t, "none")
        ELSE IF place.found = "probe"
        THEN [t EXCEPT !.i = place.i, !.j = place.j, !.pc = "await_head",
                       !.requests = Append(@, Request("HEAD", place.i, place.j))]
        ELSE Download(t, place.i, place.j)

\* the history variable stats after a step of StoryThread.update from t to r
Account(t, r) ==
    LET th == r.thread
        issued == IF r.kind \in DirectKinds /\ r.pc = "await_edit" THEN 1
                  ELSE 0
        over == r.pc \in {"done", "process_profile", "process_story_finally"}
        run == r.kind = "StoryThread.update" /\ over
    IN  [stats EXCEPT ![th] =
            [renames |-> @.renames + issued,
             returned |-> @.returned \/ (run /\ r.exc = "none"),
             raised |-> @.raised \/ (run /\ r.exc # "none")]]

\* a step of StoryThread.update
StepUpdate(k, r) == Step(k, r) /\ stats' = Account(task[k], r)

(***************************************************************************)
(* Events start tasks.  Tasks start in the order of their numbers.         *)
(***************************************************************************)
CanStart(k) ==
    /\ running = 0
    /\ task[k].kind = "idle"
    /\ \A l \in Tasks : l < k => task[l].kind # "idle"

\* on_thread_create, on_thread_update, on_message, on_raw_message_edit for a
\* thread of the story forum (a message: of the thread's owner)
story_event(k, th) ==
    /\ CanStart(k)
    /\ Step(k, [IdleTask EXCEPT !.kind = "story_event", !.thread = th,
                                !.pc = "process_story"])
    /\ UNCHANGED <<pure_vars, name, archived, history, messages,
                   _processing_stories, _processing_profiles,
                   _processing_refresh, name0, stats>>

\* on_thread_create, on_thread_update for a thread of the profile forum
profile_event(k, p) ==
    /\ CanStart(k)
    /\ Step(k, [IdleTask EXCEPT !.kind = "profile_event",
                                !.user = p.owner_id,
                                !.pc = "process_profile"])
    /\ UNCHANGED <<pure_vars, name, archived, history, messages,
                   _processing_stories, _processing_profiles,
                   _processing_refresh, name0, stats>>

\* a refresh that does not look at _processing_refresh
refresh_unflagged(k) ==
    /\ CanStart(k)
    /\ _processing_refresh' = TRUE
    /\ Step(k, [IdleTask EXCEPT !.kind = "refresh", !.pc = "await_defer"])
    /\ UNCHANGED <<pure_vars, name, archived, history, messages,
                   _processing_stories, _processing_profiles, name0, stats>>

\* Stories.refresh up to its first await
refresh(k) ==
    /\ CanStart(k)
    /\ IF _processing_refresh
       THEN /\ Step(k, [IdleTask EXCEPT !.kind = "refresh",
                                        !.response = "warning",
                                        !.pc = "await_warning"])
            /\ UNCHANGED _processing_refresh
       ELSE /\ _processing_refresh' = TRUE
            /\ Step(k, [IdleTask EXCEPT !.kind = "refresh",
                                        !.pc = "await_defer"])
    /\ UNCHANGED <<pure_vars, name, archived, history, messages,
                   _processing_stories, _processing_profiles, name0, stats>>

\* Stories.refresh_cron up to its first await; tasks.loop starts a run only
\* when the run before it is over
refresh_cron(k) ==
    /\ CanStart(k)
    /\ \A l \in Tasks : task[l].kind = "refresh_cron" => task[l].pc = "done"
    /\ IF _processing_refresh
       THEN /\ Step(k, [IdleTask EXCEPT !.kind = "refresh_cron",
                                        !.pc = "done"])
            /\ UNCHANGED _processing_refresh
       ELSE /\ _processing_refresh' = TRUE
            /\ Step(k, [IdleTask EXCEPT !.kind = "refresh_cron",
                                        !.pc = "await_all_forum_threads"])
    /\ UNCHANGED <<pure_vars, name, archived, history, messages,
                   _processing_stories, _processing_profiles, name0, stats>>

(***************************************************************************)
(* Stories.process_story and StoryThread.update.                           *)
(***************************************************************************)
\* a process_story that does not look at _processing_stories
process_story_unguarded(k) ==
    LET t == task[k]
    IN  /\ At(k, "process_story")
        /\ _processing_stories' = _processing_stories \cup {t.thread}
        /\ Step(k, [t EXCEPT !.attempted = @ \cup {t.thread},
                             !.guarded = TRUE, !.dropped = NoThread,
                             !.pc = "await_history"])
        /\ UNCHANGED <<pure_vars, name, archived, history, messages,
                       _processing_profiles, _processing_refresh, name0,
                       stats>>

\* process_story up to the first await of StoryThread.update
process_story(k) ==
    LET t == task[k]
        called == [t EXCEPT !.attempted = @ \cup {t.thread}]
    IN  /\ At(k, "process_story")
        /\ IF t.thread \in _processing_stories
           THEN /\ Step(k, StoryReturns([called EXCEPT !.dropped = t.thread]))
                /\ UNCHANGED _processing_stories
           ELSE /\ _processing_stories' = _processing_stories \cup {t.thread}
                /\ Step(k, [called EXCEPT !.guarded = TRUE, !.dropped = NoThread,
                                          !.pc = "await_history"])
        /\ UNCHANGED <<pure_vars, name, archived, history, messages,
                       _processing_profiles, _processing_refresh, name0,
                       stats>>

\* thread.history() answers: _find_wordcount_file runs up to its next await
history_returns(k) ==
    /\ Awaiting(k, "await_history")
    /\ \E o \in Outcomes :
          StepUpdate(k, IF o # "none" THEN UpdateEnds(Failed(task[k]), o)
                        ELSE Resolve(task[k], 1, 1))
    /\ UNCHANGED <<pure_vars, name, archived, history, messages,
                   _processing_stories, _processing_profiles,
                   _processing_refresh, name0>>

\* a resolution that goes on to the next candidate when the HEAD request
\* raises
head_returns_fallback(k) ==
    LET t == task[k]
        c == candidates(history[t.thread][t.i])[t.j]
    IN  /\ Awaiting(k, "await_head")
        /\ \E o \in Outcomes :
              StepUpdate(k, IF o = "none" /\ candidate_can_wordcount(c)
                            THEN Download(t, t.i, t.j)
                            ELSE Resolve(IF o = "none" THEN t ELSE Failed(t),
                                         t.i, t.j + 1))
        /\ UNCHANGED <<pure_vars, name, archived, history, messages,
                       _processing_stories, _processing_profiles,
                       _processing_refresh, name0>>

\* the HEAD request of Link.from_url answers
head_returns(k) ==
    LET t == task[k]
        c == candidates(history[t.thread][t.i])[t.j]
    IN  /\ Awaiting(k, "await_head")
        /\ \E o \in Outcomes :
              StepUpdate(k, IF o # "none" THEN UpdateEnds(Failed(t), o)
                            ELSE IF candidate_can_wordcount(c)
                            THEN Download(t, t.i, t.j)
                            ELSE Resolve(t, t.i, t.j + 1))
        /\ UNCHANGED <<pure_vars, name, archived, history, messages,
                       _processing_stories, _processing_profiles,
                       _processing_refresh, name0>>

\* StoryFile.wordcount: the download answers; the words are counted and
\* rounded, and _set_wordcount runs up to its first await
download_returns(k) ==
    LET t == task[k]
        c == candidates(history[t.thread][t.i])[t.j]
    IN  /\ Awaiting(k, "await_download")
        /\ \E o \in DownloadOutcomes(c) :
              LET d == _download(c, o)
                  raw == _raw_wordcount(candidate_content_type(c), d.data)
              IN  StepUpdate(k, IF d.exc # "none"
                                THEN UpdateEnds(Failed(t), d.exc)
                                ELSE IF raw.exc # "none"
                                THEN UpdateEnds(t, raw.exc)
                                ELSE _set_wordcount(t, t.thread,
                                         _rounded_wordcount(raw.value)))
        /\ UNCHANGED <<pure_vars, name, archived, history, messages,
                       _processing_stories, _processing_profiles,
                       _processing_refresh, name0>>

\* unarchive_thread: thread.edit(archived=False) answers
unarchive_returns(k) ==
    LET t == task[k]
    IN  /\ Awaiting(k, "await_unarchive")
        /\ \E o \in Outcomes :
              LET u == [t EXCEPT !.calls =
                            Append(@, [call |-> "archived=False", exc |-> o])]
                  r == IF o # "none" THEN ScopeEnds(Failed(u), o)
                       ELSE [u EXCEPT !.pc = IF t.target \in StoryThreads
                                             THEN "await_edit"
                                             ELSE "await_message_edit"]
              IN  /\ archived' = IF o = "none"
                                 THEN [archived EXCEPT ![t.target] = FALSE]
                                 ELSE archived
                  /\ events' = thread_changed(t.target, o)
                  /\ IF t.target \in StoryThreads
                     THEN StepUpdate(k, r)
                     ELSE Step(k, r) /\ UNCHANGED stats
        /\ UNCHANGED <<call_vars, name, history, messages,
                       _processing_stories, _processing_profiles,
                       _processing_refresh, name0>>

\* an unarchive_thread without "finally": archived again only when the block
\* returned
LeaveBlock_without_finally(u, o) ==
    IF u.was_archived /\ o = "none"
    THEN [u EXCEPT !.exc = o, !.pc = "await_rearchive"]
    ELSE ScopeEnds(u, o)

\* the end of the block of unarchive_thread, the call of the block having
\* ended with exception o: the finally clause archives again what was archived
LeaveBlock(u, o) ==
    IF u.was_archived THEN [u EXCEPT !.exc = o, !.pc = "await_rearchive"]
    ELSE ScopeEnds(u, o)

\* _set_wordcount: thread.edit(name=title) answers
edit_returns(k) ==
    LET t == task[k]
    IN  /\ Awaiting(k, "await_edit")
        /\ \E o \in Outcomes :
              /\ name' = IF o = "none"
                         THEN [name EXCEPT ![t.target] = t.new_name]
                         ELSE name
              /\ events' = thread_changed(t.target, o)
              /\ StepUpdate(k, LeaveBlock(
                     [t EXCEPT !.calls =
                         Append(@, [call |-> "name", exc |-> o]),
                               !.failed = @ \/ o # "none"], o))
        /\ UNCHANGED <<call_vars, archived, history, messages,
                       _processing_stories, _processing_profiles,
                       _processing_refresh, name0>>

\* unarchive_thread: thread.edit(archived=True) answers; an exception of the
\* block propagates unless this call raises its own
rearchive_returns(k) ==
    LET t == task[k]
    IN  /\ Awaiting(k, "await_rearchive")
        /\ \E o \in Outcomes :
              LET u == [t EXCEPT !.calls =
                            Append(@, [call |-> "archived=True", exc |-> o]),
                                 !.failed = @ \/ o # "none", !.exc = "none"]
                  r == ScopeEnds(u, IF o # "none" THEN o ELSE t.exc)
              IN  /\ archived' = IF o = "none"
                                 THEN [archived EXCEPT ![t.target] = TRUE]
                                 ELSE archived
                  /\ events' = thread_changed(t.target, o)
                  /\ IF t.target \in StoryThreads
                     THEN StepUpdate(k, r)
                     ELSE Step(k, r) /\ UNCHANGED stats
        /\ UNCHANGED <<call_vars, name, history, messages,
                       _processing_stories, _processing_profiles,
                       _processing_refresh, name0>>

\* process_story: the finally clause removes the thread id; set.remove raises
\* KeyError for an id that is not in the set
process_story_finally(k) ==
    LET t == task[k]
    IN  /\ At(k, "process_story_finally")
        /\ _processing_stories' = _processing_stories \ {t.thread}
        /\ Step(k, StoryReturns(
               [Forget(t) EXCEPT !.guarded = FALSE,
                         !.exc = IF t.thread \in _processing_stories THEN @
                                 ELSE "KeyError"]))
        /\ UNCHANGED <<pure_vars, name, archived, history, messages,
                       _processing_profiles, _processing_refresh, name0,
                       stats>>

(***************************************************************************)
(* Stories.process_profile and Profile.update.                             *)
(***************************************************************************)
\* a process_profile that waits until the guard of its user is free
process_profile_waiting(k) ==
    LET t == Forget(task[k])
    IN  /\ At(k, "process_profile")
        /\ t.user \notin _processing_profiles
        /\ _processing_profiles' = _processing_profiles \cup {t.user}
        /\ Step(k, [t EXCEPT !.pc = "await_find_profile"])
        /\ UNCHANGED <<pure_vars, name, archived, history, messages,
                       _processing_stories, _processing_refresh, name0,
                       stats>>

\* a process_profile that does not look at _processing_profiles
process_profile_unguarded(k) ==
    LET t == Forget(task[k])
    IN  /\ At(k, "process_profile")
        /\ _processing_profiles' = _processing_profiles \cup {t.user}
        /\ Step(k, [t EXCEPT !.pc = "await_find_profile"])
        /\ UNCHANGED <<pure_vars, name, archived, history, messages,
                       _processing_stories, _processing_refresh, name0,
                       stats>>

\* process_profile up to its first await
process_profile(k) ==
    LET t == Forget(task[k])
    IN  /\ At(k, "process_profile")
        /\ IF t.user \in _processing_profiles
           THEN /\ Step(k, ProfileReturns(t))
                /\ UNCHANGED _processing_profiles
           ELSE /\ _processing_profiles' = _processing_profiles \cup {t.user}
                /\ Step(k, [t EXCEPT !.pc = "await_find_profile"])
        /\ UNCHANGED <<pure_vars, name, archived, history, messages,
                       _processing_stories, _processing_refresh, name0,
                       stats>>

\* fetch_user (when get_user missed its cache) and, in _find_profile,
\* all_forum_threads(profile forum) answer
find_profile_returns(k) ==
    LET t == task[k]
        thread == _find_profile(all_forum_threads(ProfileThreads), t.user,
                                NoThread)
    IN  /\ Awaiting(k, "await_find_profile")
        /\ \E o \in Outcomes :
              Step(k, IF o # "none" THEN ProfileUpdateEnds(Failed(t), o)
                      ELSE IF thread = NoThread
                      THEN ProfileUpdateEnds(t, "none")
                      ELSE [t EXCEPT !.target = thread,
                                     !.pc = "await_find_message"])
        /\ UNCHANGED <<pure_vars, name, archived, history, messages,
                       _processing_stories, _processing_profiles,
                       _processing_refresh, name0, stats>>

\* _find_message: thread.history() answers with the bot's first message
find_message_returns(k) ==
    LET t == task[k]
    IN  /\ Awaiting(k, "await_find_message")
        /\ \E o \in Outcomes :
              Step(k, IF o # "none" THEN ProfileUpdateEnds(Failed(t), o)
                      ELSE [t EXCEPT !.message = _find_message(messages[t.target]),
                                     !.pc = "await_generate_content"])
        /\ UNCHANGED <<pure_vars, name, archived, history, messages,
                       _processing_stories, _processing_profiles,
                       _processing_refresh, name0, stats>>

\* _generate_content: all_forum_threads(story forum) answers; Profile.update
\* goes on to its edit, its send or its return
generate_content_returns(k) ==
    LET t == task[k]
        content == _generate_content(_story_forum, t.user)
        u == [t EXCEPT !.content = content]
    IN  /\ Awaiting(k, "await_generate_content")
        /\ \E o \in Outcomes :
              Step(k, IF o # "none" THEN ProfileUpdateEnds(Failed(t), o)
                      ELSE IF ~t.message.exists
                      THEN [u EXCEPT !.pc = "await_send"]
                      ELSE IF content # t.message.content
                      THEN unarchive_thread(u, t.target, "await_message_edit")
                      ELSE ProfileUpdateEnds(u, "none"))
        /\ UNCHANGED <<pure_vars, name, archived, history, messages,
                       _processing_stories, _processing_profiles,
                       _processing_refresh, name0, stats>>

\* Profile.update: message.edit(content=content) answers
message_edit_returns(k) ==
    LET t == task[k]
    IN  /\ Awaiting(k, "await_message_edit")
        /\ \E o \in Outcomes :
              /\ messages' =
                    IF o = "none"
                    THEN [messages EXCEPT
                             ![t.target][t.message.index].content = t.content]
                    ELSE messages
              /\ events' = message_changed(o)
              /\ Step(k, LeaveBlock(
                     [t EXCEPT !.calls =
                         Append(@, [call |-> "content", exc |-> o]),
                               !.failed = @ \/ o # "none"], o))
        /\ UNCHANGED <<call_vars, name, archived, history,
                       _processing_stories, _processing_profiles,
                       _processing_refresh, name0, stats>>

\* Profile.update: thread.send(content) answers
send_returns(k) ==
    LET t == task[k]
    IN  /\ Awaiting(k, "await_send")
        /\ \E o \in Outcomes :
              /\ messages' =
                    IF o = "none"
                    THEN [messages EXCEPT
                             ![t.target] = Append(@, [author |-> BotUser,
                                                      content |-> t.content])]
                    ELSE messages
              /\ Step(k, ProfileUpdateEnds(
                     [t EXCEPT !.calls = <<[call |-> "send", exc |-> o]>>,
                               !.failed = @ \/ o # "none"], o))
        /\ UNCHANGED <<pure_vars, name, archived, history,
                       _processing_stories, _processing_profiles,
                       _processing_refresh, name0, stats>>

\* process_profile: the finally clause removes the user id
process_profile_finally(k) ==
    LET t == task[k]
    IN  /\ At(k, "process_profile_finally")
        /\ _processing_profiles' = _processing_profiles \ {t.user}
        /\ Step(k, ProfileReturns(
               [Forget(t) EXCEPT !.exc = IF t.user \in _processing_profiles THEN @
                                 ELSE "KeyError"]))
        /\ UNCHANGED <<pure_vars, name, archived, history, messages,
                       _processing_stories, _processing_refresh, name0,
                       stats>>

(***************************************************************************)
(* Stories.refresh, Stories.refresh_cron and Stories.process_all_stories.  *)
(***************************************************************************)
\* refresh raised: the command's error handler, refresh_error, answers with
\* utils.error
refresh_error(t) ==
    [IdleTask EXCEPT !.kind = t.kind, !.exc = t.exc,
                     !.pc = "await_refresh_error", !.response = "error"]

\* refresh: utils.warning answers and the skipped refresh returns
warning_returns(k) ==
    LET t == task[k]
    IN  /\ Awaiting(k, "await_warning")
        /\ \E o \in Outcomes :
              Step(k, IF o = "none" THEN [t EXCEPT !.pc = "done"]
                      ELSE refresh_error([t EXCEPT !.exc = o,
                                                   !.response = "none"]))
        /\ UNCHANGED <<pure_vars, name, archived, history, messages,
                       _processing_stories, _processing_profiles,
                       _processing_refresh, name0, stats>>

\* refresh: interaction.response.defer() answers
defer_returns(k) ==
    LET t == task[k]
    IN  /\ Awaiting(k, "await_defer")
        /\ \E o \in Outcomes :
              Step(k, IF o # "none"
                      THEN [t EXCEPT !.exc = o, !.pc = "refresh_finally"]
                      ELSE [t EXCEPT !.pc = "await_all_forum_threads"])
        /\ UNCHANGED <<pure_vars, name, archived, history, messages,
                       _processing_stories, _processing_profiles,
                       _processing_refresh, name0, stats>>

\* process_all_stories: all_forum_threads(story forum) answers and the loop
\* starts
all_forum_threads_returns(k) ==
    LET t == task[k]
        listing == all_forum_threads(StoryThreads)
    IN  /\ Awaiting(k, "await_all_forum_threads")
        /\ \E o \in Outcomes :
              Step(k, IF o # "none"
                      THEN [t EXCEPT !.exc = o, !.pc = "refresh_finally"]
                      ELSE NextThread([t EXCEPT !.threads = listing,
                                                !.listed = listing,
                                                !.failures = 0]))
        /\ UNCHANGED <<pure_vars, name, archived, history, messages,
                       _processing_stories, _processing_profiles,
                       _processing_refresh, name0, stats>>

\* refresh: utils.error or utils.success answers
respond_returns(k) ==
    LET t == task[k]
    IN  /\ Awaiting(k, "await_respond")
        /\ \E o \in Outcomes :
              Step(k, [t EXCEPT !.exc = o, !.pc = "refresh_finally",
                                !.response = IF o = "none" THEN @
                                             ELSE "none"])
        /\ UNCHANGED <<pure_vars, name, archived, history, messages,
                       _processing_stories, _processing_profiles,
                       _processing_refresh, name0, stats>>

\* a clean-up that only a return reaches
refresh_finally_on_return(k) ==
    LET t == task[k]
    IN  /\ At(k, "refresh_finally")
        /\ _processing_refresh' = (t.exc # "none")
        /\ Step(k, IF t.kind = "refresh" /\ t.exc # "none"
                   THEN refresh_error(t)
                   ELSE [t EXCEPT !.pc = "done"])
        /\ UNCHANGED <<pure_vars, name, archived, history, messages,
                       _processing_stories, _processing_profiles, name0,
                       stats>>

\* refresh, refresh_cron: the finally clause resets the flag
refresh_finally(k) ==
    LET t == task[k]
    IN  /\ At(k, "refresh_finally")
        /\ _processing_refresh' = FALSE
        /\ Step(k, IF t.kind = "refresh" /\ t.exc # "none"
                   THEN refresh_error(t)
                   ELSE [t EXCEPT !.pc = "done"])
        /\ UNCHANGED <<pure_vars, name, archived, history, messages,
                       _processing_stories, _processing_profiles, name0,
                       stats>>

\* refresh_error: utils.error answers
refresh_error_returns(k) ==
    LET t == task[k]
    IN  /\ Awaiting(k, "await_refresh_error")
        /\ \E o \in Outcomes :
              Step(k, [t EXCEPT !.pc = "done",
                                !.response = IF o = "none" THEN @
                                             ELSE "none"])
        /\ UNCHANGED <<pure_vars, name, archived, history, messages,
                       _processing_stories, _processing_profiles,
                       _processing_refresh, name0, stats>>

(***************************************************************************)
(* The bot: every event handler and the two refreshes, as tasks.           *)
(***************************************************************************)
\* the cog after __init__ and cog_load, no event delivered yet
BotIdle ==
    /\ _processing_stories = {}
    /\ _processing_profiles = {}
    /\ _processing_refresh = FALSE
    /\ task = [k \in Tasks |-> IdleTask]
    /\ running = 0
    /\ stats = [th \in StoryThreads |-> NoStats]
    /\ name0 = name

\* a profile message written before the stories got their present names
StaleMessage == [author |-> BotUser, content |-> <<"Stories by this author:">>]

\* the forums at the start: every second story thread is archived; user 1's
\* profile thread is archived and holds a stale message, user 2's is active
\* and holds no message of the bot
ForumArchived(th) == IF th \in StoryThreads THEN th % 2 = 0 ELSE th = 11

ForumMessages(p) == IF p = 11 THEN <<StaleMessage>> ELSE <<>>

\* thread 1 holds a file that cannot be decoded, thread 2 a link to a text,
\* any further thread the mixed history
ForumHistory(th) ==
    IF th = 1 THEN GarbageHistory(owner_id(th))
    ELSE IF th = 2 THEN LinkHistory(owner_id(th))
    ELSE MixedHistory(owner_id(th))

Init ==
    /\ PureIdle
    /\ name = [th \in StoryThreads |-> <<"a">>]
    /\ archived = [th \in AllThreads |-> ForumArchived(th)]
    /\ history = [th \in StoryThreads |-> ForumHistory(th)]
    /\ messages = [p \in ProfileThreads |-> ForumMessages(p)]
    /\ BotIdle

\* the steps of a task that is under way
TaskStep(k) ==
    \/ process_story(k)
    \/ history_returns(k)
    \/ head_returns(k)
    \/ download_returns(k)
    \/ unarchive_returns(k)
    \/ edit_returns(k)
    \/ rearchive_returns(k)
    \/ process_story_finally(k)
    \/ process_profile(k)
    \/ find_profile_returns(k)
    \/ find_message_returns(k)
    \/ generate_content_returns(k)
    \/ message_edit_returns(k)
    \/ send_returns(k)
    \/ process_profile_finally(k)
    \/ warning_returns(k)
    \/ defer_returns(k)
    \/ all_forum_threads_returns(k)
    \/ respond_returns(k)
    \/ refresh_finally(k)
    \/ refresh_error_returns(k)

Next ==
    \E k \in Tasks :
        \/ \E th \in StoryThreads : story_event(k, th)
        \/ \E p \in ProfileForum : profile_event(k, p)
        \/ refresh(k)
        \/ refresh_cron(k)
        \/ TaskStep(k)

Spec == Init /\ [][Next]_vars

(***************************************************************************)
(* The bot among its own events: the gateway reports every edit of a       *)
(* thread, the bot's edits included, and on_thread_update answers each     *)
(* report.  The forums change through the bot alone; the events of the     *)
(* start stand for the changes that users made before.                     *)
(***************************************************************************)
\* the most edits that the platform rejects
MaxFaults == 1

\* the events of users: one update of each thread of E is pending, and the
\* platform will reject up to n edits
ExternalEvents(E, n) ==
    [heard |-> TRUE, external |-> Cardinality(E), faults |-> n,
     pending |-> [th \in AllThreads |-> IF th \in E THEN 1 ELSE 0]]

\* every story thread is named without a count and holds a link to a text
\* of 100 words, or the first thread holds nothing that can be counted; the
\* profile thread of user 1 holds a stale message and may be archived
EventInit ==
    /\ inp = [name |-> <<>>, wordcount |-> 0] /\ out = NoOutput
    /\ _log_context = [k \in Tasks |-> <<>>] /\ log = NoRecord /\ files = {}
    /\ events \in {ExternalEvents({th}, MaxFaults) : th \in AllThreads}
    /\ name = [th \in StoryThreads |-> <<"a">>]
    /\ archived \in {[th \in AllThreads |-> IF th = 11 THEN a
                                             ELSE ForumArchived(th)] :
                        a \in BOOLEAN}
    /\ history \in {[th \in StoryThreads |-> IF th = 1 THEN h
                                              ELSE LinkHistory(owner_id(th))] :
                       h \in {LinkHistory(owner_id(1)),
                              EmptyHistory(owner_id(1))}}
    /\ messages = [p \in ProfileThreads |-> ForumMessages(p)]
    /\ BotIdle

\* on_thread_update(before, after): the gateway dispatches a pending update
\* of thread th, and the handler starts as a task of its own
on_thread_update(k, th) ==
    /\ running = 0
    /\ events.pending[th] > 0
    /\ task[k].pc \in {"idle", "done"}
    /\ \A l \in Tasks : l < k => task[l].pc \notin {"idle", "done"}
    /\ events' = [events EXCEPT !.pending[th] = @ - 1]
    /\ Step(k, IF th \in StoryThreads
               THEN [IdleTask EXCEPT !.kind = "story_event", !.thread = th,
                                     !.pc = "process_story"]
               ELSE [IdleTask EXCEPT !.kind = "profile_event",
                                     !.user = ProfileThread(th).owner_id,
                                     !.pc = "process_profile"])
    /\ UNCHANGED <<call_vars, name, archived, history, messages,
                   _processing_stories, _processing_profiles,
                   _processing_refresh, name0, stats>>

\* the steps of a handler of a thread update that is under way
HandlerStep(k) ==
    \/ process_story(k)
    \/ history_returns(k)
    \/ head_returns(k)
    \/ download_returns(k)
    \/ unarchive_returns(k)
    \/ edit_returns(k)
    \/ rearchive_returns(k)
    \/ process_story_finally(k)
    \/ process_profile(k)
    \/ find_profile_returns(k)
    \/ find_message_returns(k)
    \/ generate_content_returns(k)
    \/ message_edit_returns(k)
    \/ send_returns(k)
    \/ process_profile_finally(k)

EventNext ==
    \E k \in Tasks :
        \/ \E th \in AllThreads : on_thread_update(k, th)
        \/ HandlerStep(k)

EventSpec == EventInit /\ [][EventNext]_vars

(***************************************************************************)
(* Two stories of one author change at the same time: an update of each of *)
(* the story threads 1 and 2 of user 1 and of the user's profile thread is *)
(* pending, and the platform rejects no call.                              *)
(***************************************************************************)
\* what user 1 wrote into the profile thread
OwnPost == [author |-> 1, content |-> <<"a">>]

\* the profile thread of user 1 at the start: archived with a stale message,
\* active with a stale message, or active with a message of the user and
\* none of the bot
SiblingProfiles ==
    {[archived |-> TRUE, messages |-> <<StaleMessage>>],
     [archived |-> FALSE, messages |-> <<StaleMessage>>],
     [archived |-> FALSE, messages |-> <<OwnPost>>]}

SiblingInit ==
    /\ inp = [name |-> <<>>, wordcount |-> 0] /\ out = NoOutput
    /\ _log_context = [k \in Tasks |-> <<>>] /\ log = NoRecord /\ files = {}
    /\ events = ExternalEvents({1, 2, 11}, 0)
    /\ name = [th \in StoryThreads |-> <<"a">>]
    /\ history = [th \in StoryThreads |-> LinkHistory(owner_id(th))]
    /\ \E p \in SiblingProfiles :
          /\ archived = [th \in AllThreads |-> IF th = 11 THEN p.archived
                                                ELSE ForumArchived(th)]
          /\ messages = [th \in ProfileThreads |-> IF th = 11 THEN p.messages
                                                    ELSE <<>>]
    /\ BotIdle

SiblingSpec == SiblingInit /\ [][EventNext]_vars

(***************************************************************************)
(* The four listeners of the cog: which invocation an event starts.        *)
(***************************************************************************)
\* a thread of a forum that the bot does not serve, and a text channel
Elsewhere ==
    [id |-> 21, thread |-> TRUE, parent_id |-> "other_forum", owner_id |-> 1]

TextChannel ==
    [id |-> 31, thread |-> FALSE, parent_id |-> "none", owner_id |-> NoUser]

Channels == AllThreads \cup {Elsewhere.id, TextChannel.id}

\* the channel with id c: whether it is a discord.Thread, its parent_id and
\* its owner_id
get_channel(c) ==
    IF c \in StoryThreads
    THEN [id |-> c, thread |-> TRUE, parent_id |-> "story_forum",
          owner_id |-> owner_id(c)]
    ELSE IF c \in ProfileThreads
    THEN [id |-> c, thread |-> TRUE, parent_id |-> "profile_forum",
          owner_id |-> ProfileThread(c).owner_id]
    ELSE IF c = Elsewhere.id THEN Elsewhere
    ELSE TextChannel

\* the users that write messages
Authors == Users \cup {OtherUser, BotUser}

NoEvent ==
    [type |-> "none", channel |-> NoThread, author |-> NoUser,
     raised |-> FALSE]

\* a listener returns without calling anything
Ignored == [IdleTask EXCEPT !.kind = "ignored_event", !.pc = "done"]

\* await self.process_story(thread)
StartStory(thread) ==
    [IdleTask EXCEPT !.kind = "story_event", !.thread = thread.id,
                     !.pc = "process_story"]

\* await self.process_profile(thread.owner_id)
StartProfile(thread) ==
    [IdleTask EXCEPT !.kind = "profile_event", !.user = thread.owner_id,
                     !.pc = "process_profile"]

\* the body of on_thread_create and of on_thread_update
ThreadListener(thread) ==
    IF thread.parent_id = "story_forum" THEN StartStory(thread)
    ELSE IF thread.parent_id = "profile_forum" THEN StartProfile(thread)
    ELSE Ignored

\* an on_message that does not compare the author with the owner
MessageListener_any_author(channel, author) ==
    IF channel.thread /\ channel.parent_id = "story_forum"
    THEN StartStory(channel)
    ELSE Ignored

\* the test of on_message, and of on_raw_message_edit once it has the
\* channel and the message
MessageListener(channel, author) ==
    IF /\ channel.thread
       /\ channel.parent_id = "story_forum"
       /\ author = channel.owner_id
    THEN StartStory(channel)
    ELSE Ignored

\* the gateway hands event e to a listener, which runs as task k up to its
\* first await, ends at once, or calls r
Deliver(k, e, r) ==
    /\ CanStart(k)
    /\ inp' = [inp EXCEPT ![k] = e]
    /\ Step(k, r)
    /\ UNCHANGED <<out, util_vars, name, archived, history, messages,
                   _processing_stories, _processing_profiles,
                   _processing_refresh, name0, stats>>

on_thread_create(k, c) ==
    Deliver(k, [NoEvent EXCEPT !.type = "thread_create", !.channel = c],
            ThreadListener(get_channel(c)))

\* on_thread_update for an update of any thread
on_thread_update_any(k, c) ==
    Deliver(k, [NoEvent EXCEPT !.type = "thread_update", !.channel = c],
            ThreadListener(get_channel(c)))

on_message(k, c, a) ==
    Deliver(k, [NoEvent EXCEPT !.type = "message", !.channel = c,
                               !.author = a],
            MessageListener(get_channel(c), a))

\* on_raw_message_edit: the channel and the message come from the cache or
\* from fetch_channel and fetch_message, which may raise
on_raw_message_edit(k, c, a) ==
    \E raised \in BOOLEAN :
        Deliver(k, [NoEvent EXCEPT !.type = "message_edit", !.channel = c,
                                   !.author = a, !.raised = raised],
                IF raised THEN Ignored
                ELSE MessageListener(get_channel(c), a))

RouteInit ==
    /\ inp = [k \in Tasks |-> NoEvent] /\ out = NoOutput
    /\ UtilIdle
    /\ name = [th \in StoryThreads |-> <<"a">>]
    /\ archived = [th \in AllThreads |-> ForumArchived(th)]
    /\ history = [th \in StoryThreads |-> ForumHistory(th)]
    /\ messages = [p \in ProfileThreads |-> ForumMessages(p)]
    /\ BotIdle

RouteNext ==
    \E k \in Tasks :
        \/ \E c \in Channels \ {TextChannel.id} :
              on_thread_create(k, c) \/ on_thread_update_any(k, c)
        \/ \E c \in Channels, a \in Authors :
              on_message(k, c, a) \/ on_raw_message_edit(k, c, a)
        \/ HandlerStep(k)

RouteSpec == RouteInit /\ [][RouteNext]_vars

(***************************************************************************)
(* The pure functions, called directly on enumerated arguments.            *)
(***************************************************************************)
PureInit ==
    /\ inp \in [name : Names, wordcount : Counts]
    /\ out = NoOutput
    /\ UtilIdle
    /\ name = [th \in StoryThreads |-> <<"a">>]
    /\ archived = [th \in AllThreads |-> ForumArchived(th)]
    /\ history = [th \in StoryThreads |-> ForumHistory(th)]
    /\ messages = [p \in ProfileThreads |-> ForumMessages(p)]
    /\ BotIdle

PureNext == ParseName \/ FormatThenParse

PureSpec == PureInit /\ [][PureNext]_vars

(***************************************************************************)
(* Direct calls of StoryThread.update and StoryThread._set_wordcount on    *)
(* thread 1, one after the other, as tests/stories_test.py makes them.     *)
(***************************************************************************)
\* a direct call starts when no other call is under way
CanCall(k) ==
    /\ CanStart(k)
    /\ \A l \in Tasks : task[l].pc \in {"idle", "done"}

\* await StoryThread(thread, key).update()
call_update(k, th) ==
    /\ CanCall(k)
    /\ Step(k, [IdleTask EXCEPT !.kind = "StoryThread.update", !.thread = th,
                                !.pc = "await_history"])
    /\ UNCHANGED <<pure_vars, name, archived, history, messages,
                   _processing_stories, _processing_profiles,
                   _processing_refresh, name0, stats>>

\* await StoryThread(thread, key)._set_wordcount(wordcount), once on a fresh
\* thread
call_set_wordcount(k, th, wordcount) ==
    /\ CanCall(k)
    /\ \A l \in Tasks : task[l].pc = "idle"
    /\ StepUpdate(k, _set_wordcount(
           [IdleTask EXCEPT !.kind = "_set_wordcount", !.thread = th],
           th, wordcount))
    /\ UNCHANGED <<pure_vars, name, archived, history, messages,
                   _processing_stories, _processing_profiles,
                   _processing_refresh, name0>>

\* the thread under test: one of the names, archived or not
TestInit(names) ==
    /\ PureIdle
    /\ name \in {[th \in StoryThreads |-> IF th = 1 THEN n ELSE <<"a">>] :
                    n \in names}
    /\ archived \in {[th \in AllThreads |-> IF th = 1 THEN a
                                            ELSE ForumArchived(th)] :
                        a \in BOOLEAN}
    /\ messages = [p \in ProfileThreads |-> ForumMessages(p)]
    /\ BotIdle

UpdateInit ==
    /\ TestInit(ThreadNames)
    /\ history \in {[th \in StoryThreads |-> IF th = 1 THEN h
                                             ELSE ForumHistory(th)] :
                       h \in Histories(owner_id(1))}

UpdateNext ==
    \E k \in Tasks :
        \/ call_update(k, 1)
        \/ history_returns(k)
        \/ head_returns(k)
        \/ download_returns(k)
        \/ unarchive_returns(k)
        \/ edit_returns(k)
        \/ rearchive_returns(k)

UpdateSpec == UpdateInit /\ [][UpdateNext]_vars

SetWordcountInit ==
    /\ TestInit(Names)
    /\ history = [th \in StoryThreads |-> ForumHistory(th)]

SetWordcountNext ==
    \E k \in Tasks :
        \/ \E wordcount \in Counts : call_set_wordcount(k, 1, wordcount)
        \/ unarchive_returns(k)
        \/ edit_returns(k)
        \/ rearchive_returns(k)

SetWordcountSpec == SetWordcountInit /\ [][SetWordcountNext]_vars

(***************************************************************************)
(* One direct call of StoryThread.update on thread 1, named "a", over the   *)
(* histories that exercise the resolver: every single message built from a *)
(* few attachments and URLs, and every short history of a few messages.    *)
(***************************************************************************)
Png == Attachment(<<"image/png">>, 10, Garbage)

Txt == Attachment(<<"text/plain">>, 10, Text(160))

PdfFile == Attachment(<<"application/pdf">>, 20, Pdf(1200))

\* a Google document, and an address that differs from one in its scheme
GoogleDocUrl == DocUrl("abcd", Text(70))

PlainHttpDocUrl == [GoogleDocUrl EXCEPT !.scheme = "http", !.data = Text(80)]

\* the attachments of a message: none, one or two
AttachmentLists ==
    UNION {[1..n -> {Png, Txt, PdfFile}] : n \in 0..2}

\* the URLs of a message's text, with repetitions
Contents ==
    UNION {[1..n -> {TextUrl, HtmlUrl, GoogleDocUrl, PlainHttpDocUrl}] :
              n \in 0..MaxUrls}

\* the messages of the longer histories: of the owner or of someone else,
\* with nothing countable, with a countable attachment, or with a countable
\* link after a web page
ThreadMessages ==
    {Message(a, c[1], c[2]) :
        a \in {owner_id(1), OtherUser},
        c \in {<<<<Png>>, <<HtmlUrl>>>>, <<<<Txt>>, <<>>>>,
               <<<<>>, <<HtmlUrl, TextUrl>>>>}}

\* ... and a file that cannot be decoded, followed by a link to a text
ResolveHistories ==
    {<<Message(owner_id(1), at, c)>> : at \in AttachmentLists, c \in Contents}
      \cup UNION {[1..n -> ThreadMessages] : n \in 0..MaxMessages}
      \cup {GarbageHistory(owner_id(1)) \o LinkHistory(owner_id(1))}

ResolveInit ==
    /\ TestInit({<<"a">>})
    /\ history \in {[th \in StoryThreads |-> IF th = 1 THEN h
                                             ELSE ForumHistory(th)] :
                       h \in ResolveHistories}

\* one run of StoryThread(thread, key).update() on a fresh thread
call_update_once(k, th) ==
    /\ \A l \in Tasks : task[l].pc = "idle"
    /\ call_update(k, th)

ResolveNext ==
    \E k \in Tasks :
        \/ call_update_once(k, 1)
        \/ history_returns(k)
        \/ head_returns(k)
        \/ download_returns(k)
        \/ unarchive_returns(k)
        \/ edit_returns(k)
        \/ rearchive_returns(k)

ResolveSpec == ResolveInit /\ [][ResolveNext]_vars

(***************************************************************************)
(* One direct call of StoryThread.update on thread 1, named "a", whose     *)
(* owner posted one address: a text file or a Google document, the server  *)
(* answering the GET with one of several statuses.                         *)
(***************************************************************************)
\* the statuses of the answer: success, final answers of the 3xx class
\* (which aiohttp does not follow), client error, server error
FetchStatuses == {200, 204, 300, 304, 404, 500}

FetchUrls ==
    {WebUrl("test.txt", "text/plain", 10, Answered(st, Text(1200))) :
        st \in FetchStatuses}
      \cup {DocUrl("abcd", Answered(st, Text(1200))) : st \in FetchStatuses}

FetchInit ==
    /\ TestInit({<<"a">>})
    /\ history \in {[th \in StoryThreads |->
                        IF th = 1 THEN <<Message(owner_id(1), <<>>, <<u>>)>>
                        ELSE ForumHistory(th)] :
                       u \in FetchUrls}

FetchSpec == FetchInit /\ [][ResolveNext]_vars

(***************************************************************************)
(* StoryThread.update on long threads: messages of other users, and then   *)
(* at most one message of the owner with a text file or with the address   *)
(* of one.                                                                 *)
(***************************************************************************)
\* how many messages come first
PaddingLengths == {0, 1, 99, 100, 101}

\* what was posted before the story
Padding(n) == [i \in 1..n |-> Message(OtherUser, <<Txt>>, <<>>)]

LongHistories ==
    {Padding(n) \o tail :
        n \in PaddingLengths,
        tail \in {<<>>, <<Message(owner_id(1), <<Txt>>, <<>>)>>,
                  <<Message(owner_id(1), <<>>, <<TextUrl>>)>>}}

LongInit ==
    /\ TestInit({<<"a">>, <<"a", " ">> \o Marker(1000)})
    /\ history \in {[th \in StoryThreads |-> IF th = 1 THEN h
                                             ELSE ForumHistory(th)] :
                       h \in LongHistories}

LongSpec == LongInit /\ [][ResolveNext]_vars

(***************************************************************************)
(* The refreshes alone, over a story forum whose first thread holds no     *)
(* countable file; the profile thread of user 1 holds a stale message of   *)
(* the bot or none.                                                        *)
(***************************************************************************)
\* the names of the first thread: one with a marker, and one that
\* _parse_name would not match
BatchNames == {<<"a", " ">> \o Marker(100), <<"\n", "[">>}

BatchInit ==
    /\ PureIdle
    /\ name \in {[th \in StoryThreads |-> IF th = 1 THEN n ELSE <<"a">>] :
                    n \in BatchNames}
    /\ archived \in {[th \in AllThreads |-> IF th = 1 THEN a
                                            ELSE ForumArchived(th)] :
                        a \in BOOLEAN}
    /\ history = [th \in StoryThreads |->
                     IF th = 1 THEN EmptyHistory(owner_id(th))
                     ELSE ForumHistory(th)]
    /\ messages \in {[p \in ProfileThreads |-> IF p = 11 THEN h ELSE <<>>] :
                        h \in {<<>>, <<StaleMessage>>}}
    /\ BotIdle

BatchNext ==
    \E k \in Tasks :
        \/ refresh(k)
        \/ refresh_cron(k)
        \/ TaskStep(k)

BatchSpec == BatchInit /\ [][BatchNext]_vars

(***************************************************************************)
(* Direct calls of StoryFile's pure methods: _rounded_wordcount on a raw   *)
(* count, can_wordcount on a content type and a size, _raw_wordcount on a  *)
(* content type and downloaded bytes.                                      *)
(***************************************************************************)
\* the raw counts rounded: a whole range and some counts beyond it
RawCounts == (0..MaxWordcount) \cup {9500, 10500, 12345, 12500}

\* the content types judged: the two that count, none, and others
ContentTypes ==
    {"text/plain", "application/pdf", "", "bar", "image/jpeg", "text/html"}

\* the sizes judged: unknown, empty, small, and those around the limit
Sizes ==
    {NoSize, 0, 10, WORDCOUNT_MAX_SIZE - 1, WORDCOUNT_MAX_SIZE,
     WORDCOUNT_MAX_SIZE + 1, 40 * 1024 * 1024}

\* StoryFile._rounded_wordcount(inp.wordcount)
RoundCount ==
    /\ out.fn = "none"
    /\ out' = [NoOutput EXCEPT !.fn = "_rounded_wordcount",
                               !.wordcount = _rounded_wordcount(inp.wordcount)]
    /\ UNCHANGED <<inp, util_vars, bot_vars>>

\* FakeStoryFile(url, inp.content_type, inp.size).can_wordcount()
CanWordcount ==
    /\ out.fn = "none"
    /\ out' = [fn |-> "can_wordcount", raised |-> FALSE, title |-> <<>>,
               wordcount |-> 0,
               result |-> can_wordcount(inp.content_type, inp.size)]
    /\ UNCHANGED <<inp, util_vars, bot_vars>>

\* FakeStoryFile(url, inp.content_type, inp.size)._raw_wordcount(data) on a
\* text, a PDF document, or bytes that are neither
RawWordcount ==
    /\ out.fn = "none"
    /\ \E data \in {Text(4), Pdf(229), Garbage} :
          LET r == _raw_wordcount(inp.content_type, data)
          IN  out' = [fn |-> "_raw_wordcount", raised |-> r.exc # "none",
                      title |-> <<>>, wordcount |-> r.value,
                      exc |-> r.exc, data |-> data]
    /\ UNCHANGED <<inp, util_vars, bot_vars>>

StoryFileInit ==
    /\ inp \in [name : {<<>>}, wordcount : RawCounts,
                 content_type : {"text/plain"}, size : {10}]
            \cup [name : {<<>>}, wordcount : {0},
                  content_type : ContentTypes, size : Sizes]
    /\ out = NoOutput
    /\ UtilIdle
    /\ name = [th \in StoryThreads |-> <<"a">>]
    /\ archived = [th \in AllThreads |-> ForumArchived(th)]
    /\ history = [th \in StoryThreads |-> ForumHistory(th)]
    /\ messages = [p \in ProfileThreads |-> ForumMessages(p)]
    /\ BotIdle

StoryFileNext == RoundCount \/ CanWordcount \/ RawWordcount

StoryFileSpec == StoryFileInit /\ [][StoryFileNext]_vars

(***************************************************************************)
(* Direct calls of Profile.update, one after the other, as                 *)
(* tests/stories_test.py makes them: for user 1, whose two profile threads *)
(* are 11 and 13, for user 2, whose profile thread 12 holds no message,    *)
(* and for a user without a profile thread.                                *)
(***************************************************************************)
\* a message of the thread's owner
OwnerPost == [author |-> 1, content |-> <<"hi">>]

\* a message of the bot that holds what _generate_content returns for user 1
CurrentMessage ==
    [author |-> BotUser, content |-> _generate_content(_story_forum, 1)]

\* what thread 11 may hold at the start
ProfileHistories ==
    UNION {[1..n -> {OwnerPost, StaleMessage, CurrentMessage}] :
              n \in 0..MaxMessages}

ProfileInit ==
    /\ PureIdle
    /\ name = [th \in StoryThreads |-> <<"a">>]
    /\ archived \in {[th \in AllThreads |-> IF th = 11 THEN a
                                            ELSE ForumArchived(th)] :
                        a \in BOOLEAN}
    /\ history = [th \in StoryThreads |-> ForumHistory(th)]
    /\ messages \in {[p \in ProfileThreads |-> IF p = 11 THEN h ELSE <<>>] :
                        h \in ProfileHistories}
    /\ BotIdle

\* await Profile(user, ...).update()
call_profile_update(k, user) ==
    /\ CanCall(k)
    /\ Step(k, [IdleTask EXCEPT !.kind = "Profile.update", !.user = user,
                                !.pc = "await_find_profile"])
    /\ UNCHANGED <<pure_vars, name, archived, history, messages,
                   _processing_stories, _processing_profiles,
                   _processing_refresh, name0, stats>>

ProfileNext ==
    \E k \in Tasks :
        \/ \E user \in Users \cup {OtherUser} : call_profile_update(k, user)
        \/ find_profile_returns(k)
        \/ find_message_returns(k)
        \/ generate_content_returns(k)
        \/ unarchive_returns(k)
        \/ message_edit_returns(k)
        \/ send_returns(k)
        \/ rearchive_returns(k)

ProfileSpec == ProfileInit /\ [][ProfileNext]_vars

(***************************************************************************)
(* Direct calls of Profile._generate_content over story forums of up to    *)
(* MaxForum threads, as all_forum_threads lists them: threads of either    *)
(* user, creation times that may coincide.                                 *)
(***************************************************************************)
StoryNames == {<<"a">>, <<"b", " ", "c">>}

\* the thread listed at place k
ForumThreads(k) ==
    [id : {k}, owner_id : Users, created_at : 1..MaxForum, name : StoryNames]

Forums ==
    UNION {{f \in [1..n -> UNION {ForumThreads(k) : k \in 1..n}] :
               \A k \in 1..n : f[k].id = k} : n \in 0..MaxForum}

\* Profile(inp.user, ...)._generate_content() over inp.forum
GenerateContent ==
    /\ out.fn = "none"
    /\ out' = [fn |-> "_generate_content", raised |-> FALSE, title |-> <<>>,
               wordcount |-> 0,
               content |-> _generate_content(inp.forum, inp.user)]
    /\ UNCHANGED <<inp, util_vars, bot_vars>>

ContentInit ==
    /\ inp \in [name : {<<>>}, wordcount : {0}, forum : Forums, user : Users]
    /\ out = NoOutput
    /\ UtilIdle
    /\ name = [th \in StoryThreads |-> <<"a">>]
    /\ archived = [th \in AllThreads |-> ForumArchived(th)]
    /\ history = [th \in StoryThreads |-> ForumHistory(th)]
    /\ messages = [p \in ProfileThreads |-> ForumMessages(p)]
    /\ BotIdle

ContentSpec == ContentInit /\ [][GenerateContent]_vars

(***************************************************************************)
(* utils.LogContext and utils._Logger: two tasks, created outside every    *)
(* context as tests/utils_test.py creates them, enter and leave nested     *)
(* with-blocks and log; a step of one task may follow any step of the      *)
(* other.  A string is the sequence of its pieces.                         *)
(***************************************************************************)
MaxDepth == 2

Contexts == {"context1", "context2", "context3"}

\* test1 and test2
LogTasks == {1, 2}

\* asyncio.create_task: the task runs in its own copy of the context it was
\* created in
copy_context_shared(k) == 1

copy_context(k) == k

\* LogContext.__enter__ of a fresh object: the new value and the token that
\* ContextVar.set returns, which holds the old value
__enter__(_context, value) ==
    [value |-> IF value # <<>> THEN value \o <<": ", _context>>
               ELSE <<_context>>,
     self |-> [_context |-> _context, _old_value |-> [old_value |-> value]]]

\* LogContext.__exit__: ContextVar.reset(token)
__exit__(self) == self._old_value.old_value

\* _Logger.process
process(value, msg) ==
    IF value # <<>> THEN value \o <<": ", msg>> ELSE <<msg>>

LogTask == [kind |-> "log", pc |-> "run", blocks |-> <<>>]

\* the segments of the blocks task k is inside, outermost first
Active(k) ==
    [i \in 1..Len(task[k].blocks) |-> task[k].blocks[i]._context]

\* with LogContext(c):
EnterBlock(k) ==
    /\ task[k].pc = "run"
    /\ Len(task[k].blocks) < MaxDepth
    /\ \E c \in Contexts :
          LET e == __enter__(c, _log_context[copy_context(k)])
          IN  /\ _log_context' =
                     [_log_context EXCEPT ![copy_context(k)] = e.value]
              /\ task' = [task EXCEPT ![k].blocks = Append(@, e.self)]
    /\ UNCHANGED log

\* the end of the innermost block, reached normally or by the exception
\* that is propagating; the task ends when the exception left every block
ExitBlock(k) ==
    LET b == task[k].blocks
    IN  /\ task[k].pc \in {"run", "raise"}
        /\ b # <<>>
        /\ _log_context' =
               [_log_context EXCEPT ![copy_context(k)] = __exit__(b[Len(b)])]
        /\ task' = [task EXCEPT
                       ![k].blocks = SubSeq(b, 1, Len(b) - 1),
                       ![k].pc = IF @ = "raise" /\ Len(b) = 1 THEN "done"
                                 ELSE @]
        /\ UNCHANGED log

\* an exception is raised inside a block
RaiseInBlock(k) ==
    /\ task[k].pc = "run"
    /\ task[k].blocks # <<>>
    /\ task' = [task EXCEPT ![k].pc = "raise"]
    /\ UNCHANGED <<_log_context, log>>

\* logger.info(msg)
Info(k) ==
    /\ task[k].pc = "run"
    /\ \E msg \in {"baz"} :
          log' = [task |-> k, msg |-> msg, active |-> Active(k),
                  text |-> process(_log_context[copy_context(k)], msg)]
    /\ UNCHANGED <<_log_context, task>>

LogInit ==
    /\ PureIdle
    /\ name = [th \in StoryThreads |-> <<"a">>]
    /\ archived = [th \in AllThreads |-> ForumArchived(th)]
    /\ history = [th \in StoryThreads |-> ForumHistory(th)]
    /\ messages = [p \in ProfileThreads |-> ForumMessages(p)]
    /\ _processing_stories = {} /\ _processing_profiles = {}
    /\ _processing_refresh = FALSE
    /\ task = [k \in Tasks |-> LogTask]
    /\ running = 0
    /\ name0 = name
    /\ stats = [th \in StoryThreads |-> NoStats]

LogNext ==
    /\ \E k \in LogTasks :
          EnterBlock(k) \/ ExitBlock(k) \/ RaiseInBlock(k) \/ Info(k)
    /\ UNCHANGED <<inp, out, files, events, name, archived, history,
                   messages, _processing_stories, _processing_profiles,
                   _processing_refresh, running, name0, stats>>

LogSpec == LogInit /\ [][LogNext]_vars

(***************************************************************************)
(* The variant that counts with an external helper (src/stories.py):       *)
(* calls of Story.wordcount, one per task, each with a temporary file of   *)
(* its own name.                                                           *)
(***************************************************************************)
NoFile == 0

\* what the helper printed: int() of it, or none
HelperOutputs ==
    {[int |-> TRUE, value |-> 1200], [int |-> TRUE, value |-> -5],
     [int |-> FALSE, value |-> 0]}

WordcountCall ==
    [kind |-> "Story.wordcount", pc |-> "idle", filename |-> NoFile,
     created |-> NoFile, exc |-> "none", wordcount |-> -1]

\* Story._wordcount once the helper ended
_wordcount(returncode, stdout) ==
    IF returncode # 0 THEN [exc |-> "ValueError", wordcount |-> -1]
    ELSE IF ~stdout.int THEN [exc |-> "ValueError", wordcount |-> -1]
    ELSE IF stdout.value < 0 THEN [exc |-> "ValueError", wordcount |-> -1]
    ELSE [exc |-> "none", wordcount |-> stdout.value]

\* a clean-up that only a return reaches
wordcount_finally_on_return(t, disk) ==
    IF t.filename # NoFile /\ t.exc = "none" THEN disk \ {t.filename}
    ELSE disk

\* Story.wordcount, finally: the files left on the disk
wordcount_finally(t, disk) ==
    IF t.filename # NoFile THEN disk \ {t.filename} ELSE disk

\* Story.wordcount up to its first await: the temporary file is created and
\* closed, or its creation fails
wordcount(k) ==
    /\ running = 0 /\ task[k].pc = "idle"
    /\ \/ /\ files' = files \cup {k}
          /\ task' = [task EXCEPT ![k].filename = k, ![k].created = k,
                                   ![k].pc = "await_download"]
          /\ running' = 0
       \/ /\ task' = [task EXCEPT ![k].exc = "OSError",
                                   ![k].pc = "wordcount_finally"]
          /\ running' = k
          /\ UNCHANGED files

\* _download ends: Attachment.save or the GET and the write returned,
\* raised, or the task was cancelled
wordcount_download_returns(k) ==
    /\ Awaiting(k, "await_download")
    /\ \E o \in {"none", "HTTPException", "ClientError", "OSError",
                  "CancelledError"} :
          /\ task' = [task EXCEPT
                         ![k].exc = o,
                         ![k].pc = IF o = "none" THEN "await_communicate"
                                   ELSE "wordcount_finally"]
          /\ running' = IF o = "none" THEN 0 ELSE k
    /\ UNCHANGED files

\* _wordcount: the helper could not be started, or it ended
communicate_returns(k) ==
    /\ Awaiting(k, "await_communicate")
    /\ \/ \E o \in {"OSError", "CancelledError"} :
             task' = [task EXCEPT ![k].exc = o,
                                  ![k].pc = "wordcount_finally"]
       \/ \E returncode \in {0, 1}, stdout \in HelperOutputs :
             LET r == _wordcount(returncode, stdout)
             IN  task' = [task EXCEPT ![k].exc = r.exc,
                                      ![k].wordcount = r.wordcount,
                                      ![k].pc = "wordcount_finally"]
    /\ running' = k
    /\ UNCHANGED files

\* the finally clause, and the call is over
wordcount_ends(k) ==
    /\ At(k, "wordcount_finally")
    /\ files' = wordcount_finally(task[k], files)
    /\ task' = [task EXCEPT ![k].pc = "done"]
    /\ running' = 0

TempInit ==
    /\ PureIdle
    /\ name = [th \in StoryThreads |-> <<"a">>]
    /\ archived = [th \in AllThreads |-> ForumArchived(th)]
    /\ history = [th \in StoryThreads |-> ForumHistory(th)]
    /\ messages = [p \in ProfileThreads |-> ForumMessages(p)]
    /\ _processing_stories = {} /\ _processing_profiles = {}
    /\ _processing_refresh = FALSE
    /\ task = [k \in Tasks |-> WordcountCall]
    /\ running = 0
    /\ name0 = name
    /\ stats = [th \in StoryThreads |-> NoStats]

TempNext ==
    /\ \E k \in Tasks :
          \/ wordcount(k)
          \/ wordcount_download_returns(k)
          \/ communicate_returns(k)
          \/ wordcount_ends(k)
    /\ UNCHANGED <<inp, out, _log_context, log, events, name, archived,
                   history, messages, _processing_stories,
                   _processing_profiles, _processing_refresh, name0, stats>>

TempSpec == TempInit /\ [][TempNext]_vars

(***************************************************************************)
(* Properties of the bot (specification Spec).                             *)
(***************************************************************************)
Range(s) == {s[i] : i \in 1..Len(s)}

\* the platform, as the handlers can change it
platform == <<name, archived, history, messages>>

\* the places of process_story between the insertion of the thread id into
\* _processing_stories and its removal
StoryGuardedPcs ==
    {"await_history", "await_head", "await_download", "await_unarchive",
     "await_edit", "await_rearchive", "process_profile",
     "await_find_profile", "await_find_message", "await_generate_content",
     "await_message_edit", "await_send", "process_profile_finally",
     "process_story_finally"}

InProcessStory(k) ==
    task[k].kind \in StoryKinds /\ task[k].pc \in StoryGuardedPcs

\* the places of process_profile between the insertion of the user id into
\* _processing_profiles and its removal
InProcessProfile(k) ==
    /\ task[k].kind \in StoryKinds \cup {"profile_event"}
    /\ \/ task[k].pc \in {"await_find_profile", "await_find_message",
                          "await_generate_content", "await_message_edit",
                          "await_send", "process_profile_finally"}
       \/ /\ task[k].pc \in {"await_unarchive", "await_rearchive"}
          /\ task[k].target \in ProfileThreads

\* the step, if it is one of task k, changes nothing but task k's own record
\* and the event loop
OnlyOwnRecord(k) ==
    /\ UNCHANGED <<platform, _processing_stories, _processing_profiles,
                   _processing_refresh>>
    /\ \A l \in Tasks \ {k} : task'[l] = task[l]

C1_OneAtATime ==
    /\ \A k \in Tasks : InProcessStory(k) <=> task[k].guarded
    /\ \A k, l \in Tasks :
          (k # l /\ InProcessStory(k) /\ InProcessStory(l))
              => task[k].thread # task[l].thread

C1_Dropped(k) ==
    LET th == task[k].thread
    IN  (At(k, "process_story") /\ th \in _processing_stories
            /\ task'[k] # task[k])
        => /\ OnlyOwnRecord(k)
           /\ task'[k].pc \notin StoryGuardedPcs
           /\ task'[k].kind = "story_event" => task'[k].pc = "done"
           /\ task'[k].pc = "process_story" => task'[k].thread # th
           /\ th \notin Range(task'[k].threads)

\* C1: for each thread id at most one invocation of process_story is between
\* the insertion of the id into _processing_stories and its removal; an
\* invocation that finds the id in the set changes nothing, reads and writes
\* nothing of the platform, and is over for that thread: an event handler has
\* ended for good, a refresh goes on with other threads only.
C1_PerThreadMutualExclusion ==
    /\ []C1_OneAtATime
    /\ [][\A k \in Tasks :
            /\ C1_Dropped(k)
            /\ task[k].pc = "done" => task'[k] = task[k]]_vars

\* an event handler was dropped while another invocation holds the thread
C1_Witness ==
    \E k, l \in Tasks :
        /\ k # l
        /\ InProcessStory(k)
        /\ task[l].kind = "story_event" /\ task[l].pc = "done"
        /\ task[l].dropped = task[k].thread

Call(c, o) == [call |-> c, exc |-> o]

\* the block of unarchive_thread and its two edits are over
ScopeOver(t) ==
    t.pc \notin {"await_unarchive", "await_edit", "await_message_edit",
                 "await_rearchive"}

\* the calls made so far for a thread that was archived: un-archive, then
\* the rename or the message edit, then re-archive; nothing after a failed
\* un-archive; all three once the block is over
C3_Sequence(t) ==
    LET c == t.calls
        n == Len(c)
        op == IF t.target \in StoryThreads THEN "name" ELSE "content"
    IN  /\ n <= 3
        /\ n >= 1 => c[1].call = "archived=False"
        /\ n >= 2 => c[1] = Call("archived=False", "none") /\ c[2].call = op
        /\ n = 3 => c[3].call = "archived=True"
        /\ t.pc = "await_unarchive" <=> n = 0
        /\ t.pc \in {"await_edit", "await_message_edit"} <=> n = 1 /\ ~ScopeOver(t)
        /\ t.pc = "await_rearchive" <=> n = 2
        /\ ScopeOver(t) => n = 3 \/ (n = 1 /\ c[1].exc # "none")

InProcessAllStories(k) ==
    /\ task[k].kind \in RefreshKinds
    /\ task[k].pc \notin {"idle", "done", "await_warning", "await_defer",
                          "await_respond", "refresh_finally",
                          "await_refresh_error"}

C4_OneAtATime ==
    /\ \A k, l \in Tasks :
          k # l => ~(InProcessAllStories(k) /\ InProcessAllStories(l))
    /\ \A k \in Tasks : InProcessAllStories(k) => _processing_refresh

\* a refresh that starts while the flag is up
C4_Skipped(k) ==
    (task[k].kind = "idle" /\ task'[k].kind \in RefreshKinds
        /\ _processing_refresh)
    => /\ OnlyOwnRecord(k)
       /\ task'[k].attempted = {}
       /\ IF task'[k].kind = "refresh"
          THEN task'[k].pc = "await_warning" /\ task'[k].response = "warning"
          ELSE task'[k].pc = "done" /\ task'[k].response = "none"

\* the skipped manual refresh returns when its warning is sent (to the error
\* handler when sending it raised)
C4_Warned(k) ==
    (task[k].pc = "await_warning" /\ task'[k] # task[k])
    => /\ OnlyOwnRecord(k)
       /\ task'[k].pc = IF task'[k].exc = "none" THEN "done"
                        ELSE "await_refresh_error"

\* C4: no two refreshes (manual or scheduled) are inside process_all_stories
\* at once; a refresh that starts while _processing_refresh is True processes
\* no thread, leaves the flag, the guards and the other tasks as they are,
\* and the manual one warns its invoker.
C4_RefreshMutualExclusion ==
    /\ []C4_OneAtATime
    /\ [][\A k \in Tasks : C4_Skipped(k) /\ C4_Warned(k)]_vars

\* a manual refresh is warning its invoker while another refresh is in its
\* loop
C4_Witness ==
    \E k, l \in Tasks :
        /\ InProcessAllStories(k)
        /\ task[l].kind = "refresh" /\ task[l].pc = "await_warning"
        /\ task[l].response = "warning"

\* process_all_stories is over: it returned, or an exception left its loop
AfterLoop(t) ==
    /\ t.kind \in RefreshKinds
    /\ t.listed # <<>>
    /\ t.pc \in {"await_respond", "refresh_finally"}

\* C5 as stated: process_story is attempted for every thread the listing
\* holds, whatever happened to the threads before it, and the answer is
\* False (the invoker is told of an error) iff some thread failed.
C5_BatchFailureIsolation ==
    \A k \in Tasks :
        LET t == task[k]
        IN  AfterLoop(t)
            => /\ t.attempted = Range(t.listed)
               /\ Range(t.listed) = StoryThreads
               /\ t.pc = "await_respond"
                     => (t.response = "error" <=> t.failures > 0)

\* the file of one thread did not decode, the exception left the loop, and a
\* thread of the listing was never attempted
C5_Witness ==
    \E k \in Tasks :
        LET t == task[k]
        IN  /\ AfterLoop(t)
            /\ t.exc = "UnicodeDecodeError"
            /\ t.attempted # Range(t.listed)

C6_Held ==
    /\ \A th \in _processing_stories :
          \E k \in Tasks : InProcessStory(k) /\ task[k].thread = th
    /\ \A u \in _processing_profiles :
          \E k \in Tasks : InProcessProfile(k) /\ task[k].user = u
    /\ \A k \in Tasks :
          /\ InProcessStory(k) => task[k].thread \in _processing_stories
          /\ InProcessProfile(k) => task[k].user \in _processing_profiles
          /\ task[k].exc # "KeyError"
    /\ \A k, l \in Tasks :
          k # l => /\ ~(/\ InProcessStory(k) /\ InProcessStory(l)
                        /\ task[k].thread = task[l].thread)
                   /\ ~(/\ InProcessProfile(k) /\ InProcessProfile(l)
                        /\ task[k].user = task[l].user)

\* C6: an id is in a guard set exactly while one invocation that inserted it
\* is under way, so it is out of the set once that invocation has ended, by
\* return or by exception; the removal always finds the id in the set (no
\* KeyError).
C6_GuardRelease ==
    /\ C6_Held
    /\ \A k \in Tasks :
          /\ task[k].pc = "process_story_finally"
                => task[k].thread \in _processing_stories
          /\ task[k].pc = "process_profile_finally"
                => task[k].user \in _processing_profiles

\* process_story ended with an exception that is no DiscordException: the
\* refresh it ran in is left with the thread id out of the set
C6_Witness ==
    \E k \in Tasks :
        /\ task[k].kind \in RefreshKinds /\ task[k].pc = "refresh_finally"
        /\ task[k].exc = "UnicodeDecodeError"
        /\ task[k].thread \in StoryThreads
        /\ task[k].thread \notin _processing_stories

(***************************************************************************)
(* The title convention, stated without the pattern: a marker is "[", one  *)
(* or more digits, " words]"; the final marker of a name is the one that   *)
(* only white space follows.                                               *)
(***************************************************************************)
IsMarker(m) ==
    /\ Len(m) >= 5
    /\ m[1] = "["
    /\ \A i \in 2..(Len(m) - 3) : IsDigit(m[i])
    /\ m[Len(m) - 2] = " " /\ m[Len(m) - 1] = "words" /\ m[Len(m)] = "]"

Blank(s) == \A i \in 1..Len(s) : s[i] \in Whitespace

\* the places <<first, last>> of the markers of s
Markers(s) ==
    {pe \in (1..Len(s)) \X (1..Len(s)) :
        pe[1] <= pe[2] /\ IsMarker(SubSeq(s, pe[1], pe[2]))}

FinalMarkers(s) ==
    {pe \in Markers(s) : Blank(SubSeq(s, pe[2] + 1, Len(s)))}

HasFinalMarker(s) == FinalMarkers(s) # {}

FinalMarker(s) == CHOOSE pe \in FinalMarkers(s) : TRUE

TextBefore(s) ==
    IF HasFinalMarker(s) THEN SubSeq(s, 1, FinalMarker(s)[1] - 1) ELSE s

\* no white space at either end
Trimmed(s) ==
    s = <<>> \/ (s[1] \notin Whitespace /\ s[Len(s)] \notin Whitespace)

\* s without the white space at its ends
Trim(s) ==
    LET cuts == {ab \in (0..Len(s)) \X (0..Len(s)) :
                    /\ ab[1] <= ab[2]
                    /\ Blank(SubSeq(s, 1, ab[1]))
                    /\ Blank(SubSeq(s, ab[2] + 1, Len(s)))
                    /\ Trimmed(SubSeq(s, ab[1] + 1, ab[2]))}
        ab == CHOOSE ab \in cuts : TRUE
    IN  SubSeq(s, ab[1] + 1, ab[2])

\* the title and the count a name stands for
TitleOf(s) == Trim(TextBefore(s))

CountOf(s) ==
    IF HasFinalMarker(s)
    THEN int(SubSeq(s, FinalMarker(s)[1] + 1, FinalMarker(s)[2] - 3))
    ELSE 0

\* a line break stands before a symbol that is no white space: before the
\* final marker or, without one, inside the title
LineBreakInTitle(s) ==
    \E i \in 1..Len(s) :
        s[i] = "\n" /\ \E j \in (i + 1)..Len(s) : s[j] \notin Whitespace

\* the marker as the convention writes it
Written(title, n) ==
    IF n = 0 THEN title
    ELSE title \o <<" ", "[">> \o str(n) \o <<" ", "words", "]">>

(***************************************************************************)
(* Properties of StoryThread.update run twice or more (UpdateSpec).        *)
(***************************************************************************)
Runs == {k \in Tasks : task[k].kind = "StoryThread.update"}

Returned == {k \in Runs : task[k].pc = "done" /\ task[k].exc = "none"}

RenameRaised ==
    \E k \in Runs : \E i \in 1..Len(task[k].calls) :
        task[k].calls[i].call = "name" /\ task[k].calls[i].exc # "none"

\* the rounded count of the eligible source of a history, 0 without one
ExpectedCount(h) ==
    IF h = LinkHistory(owner_id(1)) THEN 100
    ELSE IF h = MixedHistory(owner_id(1)) THEN 200
    ELSE IF h = LongStoryHistory(owner_id(1)) THEN 2000
    ELSE 0

\* C2: for a thread with an eligible source whose rename calls, if any, took
\* effect: once a run has returned, the runs together have issued one rename
\* call, or none if the name encoded the rounded count from the start; no
\* later run is renaming; and the name encodes the rounded count.
C2_UpdaterIdempotence ==
    LET W == ExpectedCount(history[1])
    IN  (W > 0 /\ Returned # {} /\ ~RenameRaised)
        => /\ stats[1].renames = IF CountOf(name0[1]) = W THEN 0 ELSE 1
           /\ \A k \in Runs :
                 task[k].pc \notin {"await_unarchive", "await_edit",
                                    "await_rearchive"}
           /\ ~LineBreakInTitle(name[1]) /\ CountOf(name[1]) = W

\* two runs have returned and between them they issued one rename call
C2_Witness ==
    /\ ExpectedCount(history[1]) > 0
    /\ Cardinality(Returned) >= 2
    /\ ~RenameRaised
    /\ stats[1].renames = 1
    /\ name[1] # name0[1]

\* C7: the name a run of the updater passes to the rename call parses back
\* to the title of the name it replaces and to the count being written;
\* once the rename took effect the thread's name parses to that count.
C7_WrittenNameRoundTrips ==
    \A k \in Runs :
        LET t == task[k]
            written == _parse_name(t.new_name)
        IN  /\ t.pc = "await_edit"
                  => /\ t.title = TitleOf(name[t.thread])
                     /\ t.wordcount = ExpectedCount(history[t.thread])
                     /\ ~written.raised
                     /\ written.title = t.title
                     /\ written.wordcount = t.wordcount
            /\ (t.calls # <<>> /\ t.calls[Len(t.calls)] = Call("name", "none"))
                  => /\ ~_parse_name(name[t.thread]).raised
                     /\ _parse_name(name[t.thread]).wordcount = t.wordcount

\* a rename is under way for a name whose title holds an earlier marker
C7_Witness ==
    \E k \in Runs :
        /\ task[k].pc = "await_edit"
        /\ Markers(task[k].title) # {}
        /\ task[k].wordcount > 0

(***************************************************************************)
(* Properties of one call of _set_wordcount (SetWordcountSpec).            *)
(***************************************************************************)
\* C9: _set_wordcount(0) on a name that encodes a count other than 0 renames
\* the thread to the trimmed title alone; _set_wordcount(0) on a name without
\* a marker makes no rename call; _set_wordcount(n), n > 0 other than the
\* encoded count, writes "<title> [n words]"; a count equal to the encoded
\* one makes no rename call.
C9_ZeroCountOmitsMarker ==
    \A k \in Tasks :
        LET t == task[k]
            old == name0[t.thread]
        IN  (t.kind = "_set_wordcount" /\ ~LineBreakInTitle(old))
            => /\ t.pc = "await_edit"
                     => /\ t.wordcount # CountOf(old)
                        /\ t.new_name = Written(TitleOf(old), t.wordcount)
                        /\ t.wordcount = 0 => t.new_name = TitleOf(old)
               /\ t.wordcount = CountOf(old)
                     => /\ t.pc = "done" /\ t.exc = "none"
                        /\ stats[t.thread].renames = 0
                        /\ name[t.thread] = old
               /\ (t.wordcount # CountOf(old) /\ t.pc = "done")
                     => \/ stats[t.thread].renames = 1
                        \/ t.calls = <<Call("archived=False", "DiscordException")>>
               /\ (t.pc = "done" /\ Call("name", "none") \in Range(t.calls))
                     => name[t.thread] = Written(TitleOf(old), t.wordcount)

\* _set_wordcount(0) has renamed a thread whose name held a marker
C9_Witness ==
    \E k \in Tasks :
        LET t == task[k]
        IN  /\ t.kind = "_set_wordcount" /\ t.pc = "done" /\ t.exc = "none"
            /\ t.wordcount = 0
            /\ CountOf(name0[t.thread]) > 0
            /\ stats[t.thread].renames = 1
            /\ name[t.thread] = TitleOf(name0[t.thread])
            /\ name[t.thread] # <<>>

(***************************************************************************)
(* Properties of the codec (PureSpec).                                     *)
(***************************************************************************)
\* C8 as stated: a title without an embedded marker and a count n >= 0,
\* written and parsed back, give the title and the count.
C8_RoundTrip ==
    (out.fn = "roundtrip" /\ Markers(inp.name) = {})
    => /\ ~out.raised
       /\ out.title = inp.name
       /\ out.wordcount = inp.wordcount

\* C8 (as far as it holds): the round trip gives back title and count for
\* every title without an embedded marker that has no white space at either
\* end and no line break.
C8_RoundTripOfTrimmedTitles ==
    (out.fn = "roundtrip" /\ Markers(inp.name) = {} /\ Trimmed(inp.name)
        /\ "\n" \notin Range(inp.name))
    => /\ ~out.raised
       /\ out.title = inp.name
       /\ out.wordcount = inp.wordcount

\* a title with bracketed text came back with its count
C8_Witness ==
    /\ out.fn = "roundtrip"
    /\ Markers(inp.name) = {} /\ Trimmed(inp.name)
    /\ "\n" \notin Range(inp.name)
    /\ "[" \in Range(inp.name)
    /\ inp.wordcount > 0
    /\ out.title = inp.name /\ out.wordcount = inp.wordcount

\* what C10 says _parse_name returns
C10_Returns ==
    /\ ~out.raised
    /\ out.title = TitleOf(inp.name)
    /\ out.wordcount = CountOf(inp.name)
    /\ ~HasFinalMarker(inp.name)
          => out.wordcount = 0 /\ out.title = Trim(inp.name)
    /\ IsMarker(Trim(inp.name)) => out.title = <<>>

NearestMultiple(m, n, step) ==
    /\ m % step = 0
    /\ \A q \in 0..((n \div step) + 1) :
          (IF m >= n THEN m - n ELSE n - m)
              <= (IF q * step >= n THEN q * step - n ELSE n - q * step)

\* C11: _rounded_wordcount(n) is 100 for n < 100, a nearest multiple of 100
\* for 100 <= n < 1000 and a nearest multiple of 1000 for n >= 1000; the
\* five counts of the tests round to 100, 100, 200, 1000 and 12000.
C11_RoundingPolicy ==
    out.fn = "_rounded_wordcount"
    => LET n == inp.wordcount
           m == out.wordcount
       IN  /\ n < 100 => m = 100
           /\ (100 <= n /\ n < 1000) => NearestMultiple(m, n, 100)
           /\ n >= 1000 => NearestMultiple(m, n, 1000)
           /\ n = 10 => m = 100
           /\ n = 120 => m = 100
           /\ n = 160 => m = 200
           /\ n = 1020 => m = 1000
           /\ n = 12345 => m = 12000

\* 12345 words were rounded to 12000
C11_Witness ==
    /\ out.fn = "_rounded_wordcount"
    /\ inp.wordcount = 12345
    /\ out.wordcount = 12000

\* a count half way between two multiples of the step it is rounded to
Tie(n) ==
    \/ 100 <= n /\ n < 1000 /\ n % 100 = 50
    \/ n >= 1000 /\ n % 1000 = 500

\* C12 as stated: a tie is rounded up, n + 50 below 1000 and n + 500 from
\* 1000 on (250 gives 300, 2500 gives 3000).
C12_RoundHalfUp ==
    out.fn = "_rounded_wordcount"
    => LET n == inp.wordcount
           m == out.wordcount
       IN  /\ (100 <= n /\ n < 1000 /\ n % 100 = 50) => m = n + 50
           /\ (n >= 1000 /\ n % 1000 = 500) => m = n + 500

\* C12 (as far as it holds): a tie is rounded to the even multiple of the
\* step, up when the digit before the step is odd and down when it is even
\* (150 gives 200, 250 gives 200, 1500 gives 2000, 2500 gives 2000).
C12_RoundHalfToEven ==
    out.fn = "_rounded_wordcount"
    => LET n == inp.wordcount
           m == out.wordcount
       IN  /\ (100 <= n /\ n < 1000 /\ n % 100 = 50)
                 => /\ m % 200 = 0
                    /\ m = IF (n \div 100) % 2 = 1 THEN n + 50 ELSE n - 50
           /\ (n >= 1000 /\ n % 1000 = 500)
                 => /\ m % 2000 = 0
                    /\ m = IF (n \div 1000) % 2 = 1 THEN n + 500 ELSE n - 500

\* the tie 2500 was rounded down, to 2000
C12_Witness ==
    /\ out.fn = "_rounded_wordcount"
    /\ inp.wordcount = 2500
    /\ out.wordcount = 2000

\* C13: can_wordcount is true exactly for text/plain and application/pdf of
\* unknown size or of at most 30 MiB; the same types above 30 MiB and every
\* other content type, the empty one included, are turned away.
C13_Eligibility ==
    out.fn = "can_wordcount"
    => LET countable == inp.content_type \in {"text/plain", "application/pdf"}
           fits == inp.size = NoSize \/ inp.size <= 30 * 1024 * 1024
       IN  /\ out.result <=> (countable /\ fits)
           /\ (countable /\ inp.size > 30 * 1024 * 1024) => ~out.result
           /\ ~countable => ~out.result
           /\ inp.content_type = "" => ~out.result

\* a PDF of exactly 30 MiB was found eligible
C13_Witness ==
    /\ out.fn = "can_wordcount"
    /\ inp.content_type = "application/pdf"
    /\ inp.size = 30 * 1024 * 1024
    /\ out.result

(***************************************************************************)
(* The resolver's order, stated on the message: what is eligible, and the  *)
(* order in which the attachments and URLs of a message are to be tried.   *)
(***************************************************************************)
Countable(mime, size) ==
    /\ mime \in {"text/plain", "application/pdf"}
    /\ size = NoSize \/ size <= 30 * 1024 * 1024

IsGoogleDocUrl(u) ==
    /\ u.scheme = "https" /\ u.hostname = "docs.google.com"
    /\ Len(u.parts) >= 3 /\ u.parts[1] = "document" /\ u.parts[2] = "d"

\* the places of a text where a URL occurs for the first time
FirstSeen(content) ==
    {p \in 1..Len(content) : \A q \in 1..(p - 1) : content[q] # content[p]}

\* the k-th smallest element of a set of numbers
RECURSIVE Nth(_, _)
Nth(S, k) ==
    LET m == CHOOSE x \in S : \A y \in S : x <= y
    IN  IF k = 1 THEN m ELSE Nth(S \ {m}, k - 1)

\* the candidates of a message in the order C14 states: the attachments in
\* message order, then the distinct URLs in first-seen order; a URL of a
\* Google document is a document, any other URL a link
InOrder(m) ==
    LET at == m.attachments
        P == FirstSeen(m.content)
    IN  [k \in 1..Len(at) |->
            [kind |-> "attachment", data |-> at[k].data,
             eligible |-> Countable(IF at[k].content_type = <<>> THEN ""
                                    ELSE at[k].content_type[1], at[k].size)]]
        \o [k \in 1..Cardinality(P) |->
              LET u == m.content[Nth(P, k)]
              IN  IF IsGoogleDocUrl(u)
                  THEN [kind |-> "google doc", data |-> u.data,
                        eligible |-> TRUE]
                  ELSE [kind |-> "link", data |-> u.data,
                        eligible |-> Countable(u.content_type, u.size)]]

HasEligible(m) == \E k \in 1..Len(InOrder(m)) : InOrder(m)[k].eligible

\* the place of the first eligible candidate of a message that has one
FirstEligible(m) ==
    CHOOSE k \in 1..Len(InOrder(m)) :
        /\ InOrder(m)[k].eligible
        /\ \A l \in 1..(k - 1) : ~InOrder(m)[l].eligible

\* the requests C14 allows for a message, in order: a HEAD for every link up
\* to the first eligible candidate, then the download of that candidate
Allowed(m) ==
    LET E == InOrder(m)
        last == IF HasEligible(m) THEN FirstEligible(m) ELSE Len(E)
        Tried(k) == IF E[k].kind = "link"
                    THEN <<[method |-> "HEAD", kind |-> "link",
                            data |-> E[k].data]>>
                    ELSE <<>>
        Fetched(k) == IF E[k].eligible
                      THEN <<[method |-> "download", kind |-> E[k].kind,
                              data |-> E[k].data]>>
                      ELSE <<>>
    IN  Concat([k \in 1..last |-> Tried(k) \o Fetched(k)])

\* the requests a run has made for message i of thread th, each with the
\* kind and the content of the candidate it was made for
Made(t, i) ==
    LET m == history[t.thread][i]
        R == SelectSeq(t.requests, LAMBDA r : r.i = i)
    IN  [n \in 1..Len(R) |->
            [method |-> R[n].method, kind |-> candidates(m)[R[n].j].kind,
             data |-> candidates(m)[R[n].j].data]]

IsPrefix(a, b) == Len(a) <= Len(b) /\ a = SubSeq(b, 1, Len(a))

Resolving(t) ==
    t.kind = "StoryThread.update" /\ t.pc \in {"await_head", "await_download"}

\* C14: for the message a run is working on, the requests made so far are
\* the first ones of: a HEAD for every link among the attachments-then-URLs
\* (URLs distinct, in first-seen order, a Google document never probed) up
\* to the first eligible candidate, then the download of that candidate; the
\* download is of the first eligible candidate and nothing is requested
\* after it; a message is left behind only if none of its candidates is
\* eligible, with every link of it probed once.
C14_CandidateOrder ==
    \A k \in Tasks :
        LET t == task[k]
            h == history[t.thread]
        IN  Resolving(t)
            => /\ IsPrefix(Made(t, t.i), Allowed(h[t.i]))
               /\ Made(t, t.i) # <<>>
               /\ t.pc = "await_download"
                     => /\ Made(t, t.i) = Allowed(h[t.i])
                        /\ HasEligible(h[t.i])
                        /\ t.requests[Len(t.requests)].method = "download"
               /\ t.pc = "await_head"
                     => t.requests[Len(t.requests)].method = "HEAD"
               /\ \A i \in 1..(t.i - 1) :
                     Made(t, i) # <<>>
                        => ~HasEligible(h[i]) /\ Made(t, i) = Allowed(h[i])

\* an attachment that cannot be counted was passed over, a web page was
\* probed, and the Google document after it is being downloaded, unprobed,
\* while a countable link stands behind it
C14_Witness ==
    \E k \in Tasks :
        LET t == task[k]
            m == history[t.thread][t.i]
        IN  /\ Resolving(t) /\ t.pc = "await_download"
            /\ m.attachments = <<Png>>
            /\ m.content = <<HtmlUrl, GoogleDocUrl, TextUrl>>
            /\ Len(t.requests) = 2

\* C15: a run asks only for candidates of the owner's messages, oldest
\* message first; the message whose source it downloads is the earliest
\* message of the owner with an eligible candidate; it turns to a later
\* message only when no earlier message of the owner has one; and it never
\* downloads when no message of the owner has one.  The histories include
\* the empty one and those that start with a message of someone else.
C15_ResolutionOrder ==
    \A k \in Tasks :
        LET t == task[k]
            h == history[t.thread]
            owner == owner_id(t.thread)
        IN  Resolving(t)
            => /\ h[t.i].author = owner
               /\ \A n \in 1..Len(t.requests) :
                     /\ h[t.requests[n].i].author = owner
                     /\ n > 1 => t.requests[n - 1].i <= t.requests[n].i
               /\ \A i \in 1..(t.i - 1) :
                     h[i].author = owner
                        => ~HasEligible(h[i]) /\ Made(t, i) = Allowed(h[i])
               /\ t.pc = "await_download" => HasEligible(h[t.i])
               /\ (\A i \in 1..Len(h) :
                      h[i].author = owner => ~HasEligible(h[i]))
                     => t.pc # "await_download"

\* the source of the owner's third message is downloaded: the first message
\* is someone else's and holds a countable file, the second is the owner's
\* and holds nothing countable
C15_Witness ==
    \E k \in Tasks :
        LET t == task[k]
            h == history[t.thread]
        IN  /\ Resolving(t) /\ t.pc = "await_download" /\ t.i = 3
            /\ h[1].author = OtherUser /\ HasEligible(h[1])
            /\ h[2].author = owner_id(t.thread) /\ ~HasEligible(h[2])
            /\ Made(t, 2) # <<>>

(***************************************************************************)
(* Properties of the updater from end to end (UpdateSpec, BatchSpec).      *)
(***************************************************************************)
\* the rename calls a run has made
Renames(t) == SelectSeq(t.calls, LAMBDA c : c.call = "name")

\* C16: for a thread whose resolver finds a source of rounded count W and
\* whose name parses to a count other than W: once the file is counted the
\* run is renaming the thread to "<title> [W words]" (after un-archiving
\* it, if it was archived); no run makes a second rename call; and the
\* first run, if no call it awaited raised, has returned after exactly one
\* rename call, which left the thread named "<title> [W words]".  A thread
\* named "a a" with a link to three words of plain text becomes
\* "a a [100 words]".
C16_EndToEndRename ==
    LET W == ExpectedCount(history[1])
        old == name0[1]
    IN  \A k \in Runs :
            LET t == task[k]
            IN  /\ Len(Renames(t)) <= 1
                /\ t.pc \in {"await_unarchive", "await_edit"}
                      => /\ W > 0 /\ t.wordcount = W
                         /\ CountOf(name[1]) # W
                         /\ t.new_name = Written(TitleOf(name[1]), W)
                /\ (/\ k = 1 /\ t.pc = "done" /\ ~t.failed
                    /\ W > 0 /\ ~LineBreakInTitle(old) /\ CountOf(old) # W)
                      => /\ t.exc = "none"
                         /\ Len(Renames(t)) = 1
                         /\ Renames(t)[1].exc = "none"
                         /\ name[1] = Written(TitleOf(old), W)
                         /\ (old = <<"a", "a">> /\ W = 100)
                               => name[1] = <<"a", "a", " ", "[", "1", "0", "0",
                                              " ", "words", "]">>

\* the thread named "a a" with a link to three words was renamed once
C16_Witness ==
    /\ name0[1] = <<"a", "a">>
    /\ history[1] = LinkHistory(owner_id(1))
    /\ task[1].kind = "StoryThread.update" /\ task[1].pc = "done"
    /\ ~task[1].failed
    /\ stats[1].renames = 1
    /\ name[1] = <<"a", "a", " ", "[", "1", "0", "0", " ", "words", "]">>

\* no message of the thread's owner holds an eligible candidate
NoSourceThread(th) ==
    \A i \in 1..Len(history[th]) :
        history[th][i].author = owner_id(th) => ~HasEligible(history[th][i])

\* task k is in StoryThread.update for a thread without a source
UpdatingNoSource(k) ==
    /\ task[k].kind \in RefreshKinds
    /\ task[k].thread \in StoryThreads
    /\ NoSourceThread(task[k].thread)
    /\ task[k].pc \in {"await_history", "await_head"}

C17_NoEdit ==
    \A k \in Tasks :
        LET t == task[k]
        IN  (t.kind \in RefreshKinds /\ t.thread \in StoryThreads
                /\ NoSourceThread(t.thread))
            => /\ t.pc \notin {"await_download", "await_edit"}
               /\ t.pc \in {"await_unarchive", "await_rearchive"}
                     => t.target \in ProfileThreads
               /\ \A n \in 1..Len(t.requests) : t.requests[n].method = "HEAD"

C17_Returns(k) ==
    (UpdatingNoSource(k) /\ task'[k] # task[k])
    => \/ task'[k].failed /\ task'[k].exc # "none"
       \/ /\ ~task'[k].failed /\ task'[k].exc = "none"
          /\ task'[k].pc \in {"await_head", "process_profile"}

C17_NotCounted(k) ==
    LET t == task[k]
    IN  (/\ t.kind \in RefreshKinds /\ t.pc = "process_story_finally"
         /\ NoSourceThread(t.thread) /\ ~t.failed /\ task'[k] # t)
        => /\ task'[k].failures = t.failures
           /\ task'[k].exc = "none"
           /\ task'[k].pc \in {"process_story", "await_respond",
                                "refresh_finally"}

\* C17: for a thread none of whose owner's messages holds an eligible
\* candidate, StoryThread.update downloads nothing, makes no rename and no
\* archive-state call, and the thread's name (marker included, and also a
\* name that would not parse) and archived flag never change; unless a call
\* it awaits raises, update returns without an exception and process_story
\* goes on to the profile; and when process_story is over without a call
\* having raised, the refresh has not counted a failure.
C17_NoSourceIsNoError ==
    /\ []C17_NoEdit
    /\ [][/\ \A th \in StoryThreads :
               NoSourceThread(th)
                  => name'[th] = name[th] /\ archived'[th] = archived[th]
           /\ \A k \in Tasks : C17_Returns(k) /\ C17_NotCounted(k)]_vars

\* a manual refresh is about to report success for a forum whose first
\* thread, archived and named with a marker, holds no countable file
C17_Witness ==
    \E k \in Tasks :
        LET t == task[k]
        IN  /\ t.kind = "refresh" /\ t.pc = "await_respond"
            /\ t.response = "success" /\ t.failures = 0
            /\ 1 \in t.attempted
            /\ NoSourceThread(1)
            /\ archived[1]
            /\ name[1] = <<"a", " ">> \o Marker(100)

(***************************************************************************)
(* Properties of Profile.update (specification ProfileSpec) and of         *)
(* Profile._generate_content (specification ContentSpec).                  *)
(***************************************************************************)
\* the places of the bot's messages among the messages h of a thread
BotMessages(h) == {i \in 1..Len(h) : h[i].author = BotUser}

Oldest(h) == CHOOSE i \in BotMessages(h) : \A j \in BotMessages(h) : i <= j

\* the profile threads of a user, and the one created first
OwnedProfiles(user) == {p \in ProfileForum : p.owner_id = user}

Earliest(user) ==
    CHOOSE p \in OwnedProfiles(user) :
        \A q \in OwnedProfiles(user) : p.created_at <= q.created_at

\* the content a profile of the user should show
Computed(user) == _generate_content(_story_forum, user)

\* the posts and message edits among the calls of a task
Writes(t) == SelectSeq(t.calls, LAMBDA c : c.call \in {"send", "content"})

ProfileUpdates == {k \in Tasks : task[k].kind = "Profile.update"}

WritePcs ==
    {"await_send", "await_unarchive", "await_message_edit", "await_rearchive"}

\* a post is issued only to a thread without a message of the bot, an edit
\* only for the oldest message of the bot when its content differs, both
\* with the computed content, and never more than one of them
C18_WhenWritten ==
    \A k \in ProfileUpdates :
        LET t == task[k]
            h == messages[t.target]
        IN  /\ Len(Writes(t)) <= 1
            /\ t.pc = "await_send"
                  => BotMessages(h) = {} /\ t.content = Computed(t.user)
            /\ t.pc \in {"await_unarchive", "await_message_edit"}
                  => /\ BotMessages(h) # {}
                     /\ t.message.index = Oldest(h)
                     /\ h[Oldest(h)].content # Computed(t.user)
                     /\ t.content = Computed(t.user)
                     /\ Writes(t) = <<>>

\* an update that returned without a call having raised leaves the oldest
\* message of the bot with the computed content
C18_Written ==
    \A k \in ProfileUpdates :
        LET t == task[k]
        IN  (t.pc = "done" /\ ~t.failed /\ OwnedProfiles(t.user) # {})
                => LET h == messages[Earliest(t.user).id]
                   IN  /\ t.exc = "none"
                       /\ BotMessages(h) # {}
                       /\ h[Oldest(h)].content = Computed(t.user)

\* the calls are made one after the other, task 1 before task 2: after an
\* update of a user that returned without a call having raised, a second
\* one of the same user makes no call
C18_SecondUpdate ==
    (/\ {1, 2} \subseteq ProfileUpdates
     /\ task[1].pc = "done" /\ ~task[1].failed
     /\ task[2].user = task[1].user)
        => task[2].calls = <<>> /\ task[2].pc \notin WritePcs

\* what a step does to the messages of profile thread p: nothing, or the
\* post of an update that found no message of the bot, or the edit in place
\* of the oldest message of the bot
C18_Step(p) ==
    \/ messages'[p] = messages[p]
    \/ \E k \in ProfileUpdates :
          LET t == task[k]
              h == messages[p]
          IN  /\ t.target = p
              /\ \/ /\ t.pc = "await_send"
                    /\ messages'[p] =
                          Append(h, [author |-> BotUser,
                                     content |-> Computed(t.user)])
                    /\ Writes(task'[k]) = <<Call("send", "none")>>
                 \/ /\ t.pc = "await_message_edit"
                    /\ messages'[p] =
                          [h EXCEPT ![Oldest(h)].content = Computed(t.user)]
                    /\ Writes(task'[k]) = <<Call("content", "none")>>

\* C18: Profile.update posts the computed content exactly when the profile
\* thread has no message of the bot, edits the oldest message of the bot in
\* place exactly when its content differs from the computed content, and
\* makes neither call when it matches; at most one of the two calls is
\* issued per update; and a second update with nothing changed issues
\* neither. (Read of updates none of whose awaited calls raises.)
C18_IdempotentWrite ==
    /\ [](C18_WhenWritten /\ C18_Written /\ C18_SecondUpdate)
    /\ [][\A p \in ProfileThreads : C18_Step(p)]_vars

\* a first update of user 1 edited the older of the bot's two messages,
\* which stands behind a message of the owner, and a second one made no call
C18_Witness ==
    /\ task[1].kind = "Profile.update" /\ task[1].pc = "done"
    /\ task[1].user = 1 /\ ~task[1].failed
    /\ Writes(task[1]) = <<Call("content", "none")>>
    /\ task[2].kind = "Profile.update" /\ task[2].pc = "done"
    /\ task[2].user = 1 /\ ~task[2].failed /\ task[2].calls = <<>>
    /\ messages[11] = <<OwnerPost, CurrentMessage, CurrentMessage>>

\* past _find_profile, the update works on the user's earliest profile
\* thread; a user without one gets no further than _find_profile
C19_Selected ==
    \A k \in ProfileUpdates :
        LET t == task[k]
        IN  IF OwnedProfiles(t.user) = {}
            THEN /\ t.target = NoThread
                 /\ t.pc \in {"await_find_profile", "done"}
                 /\ t.calls = <<>>
                 /\ (t.pc = "done" /\ ~t.failed) => t.exc = "none"
            ELSE t.pc \notin {"await_find_profile", "done"}
                    => t.target = Earliest(t.user).id

\* C19: _find_profile returns, among the threads of the profile forum,
\* active and archived, that the user owns, the one created first, whatever
\* others own; and for a user who owns none, Profile.update posts nothing
\* and edits nothing.
C19_ProfileSelection ==
    /\ []C19_Selected
    /\ [][\A k \in Tasks :
              (/\ task'[k] # task[k]
               /\ task'[k].kind = "Profile.update"
               /\ OwnedProfiles(task'[k].user) = {})
                  => messages' = messages /\ archived' = archived]_vars

\* an update of the user without a profile thread has returned, and one of
\* user 1, whose later thread 13 is listed before the archived thread 11,
\* works on thread 11
C19_Witness ==
    /\ task[1].kind = "Profile.update" /\ task[1].user = OtherUser
    /\ task[1].pc = "done" /\ task[1].exc = "none" /\ ~task[1].failed
    /\ task[2].kind = "Profile.update" /\ task[2].user = 1
    /\ task[2].pc = "await_find_message" /\ task[2].target = 11
    /\ all_forum_threads(ProfileThreads) = <<12, 13, 11>>

\* the places of the user's threads in a forum
OwnedPlaces(forum, user) ==
    {k \in 1..Len(forum) : forum[k].owner_id = user}

\* the ways to put the places S in a row
Orders(S) ==
    {o \in [1..Cardinality(S) -> S] :
        \A i, j \in 1..Cardinality(S) : i # j => o[i] # o[j]}

NewestFirst(forum, o) ==
    \A i, j \in 1..Len(o) :
        i < j => forum[o[i]].created_at >= forum[o[j]].created_at

\* the line of a story
Line(story) ==
    <<"* [">> \o story.name \o <<"](">> \o jump_url(story.id) \o <<")">>

\* the lines of the threads at the places o, each behind a line break
RECURSIVE Listing(_, _)
Listing(forum, o) ==
    IF o = <<>> THEN <<>>
    ELSE <<"\n">> \o Line(forum[Head(o)]) \o Listing(forum, Tail(o))

\* C20: for a user who owns a thread of the story forum, _generate_content
\* returns the header "Stories by this author:", a blank line, and one line
\* "* [name](url)" for each story thread the user owns and for no other,
\* newest first.
C20_ProfileContent ==
    (out.fn = "_generate_content" /\ OwnedPlaces(inp.forum, inp.user) # {})
        => \E o \in Orders(OwnedPlaces(inp.forum, inp.user)) :
              /\ NewestFirst(inp.forum, o)
              /\ out.content = <<"Stories by this author:", "\n">>
                                  \o Listing(inp.forum, o)

\* the content for user 1 of a forum that lists an old story of user 1, a
\* story of user 2 and a newer story of user 1
C20_Witness ==
    /\ out.fn = "_generate_content"
    /\ inp.user = 1
    /\ inp.forum =
          <<[id |-> 1, owner_id |-> 1, created_at |-> 1, name |-> <<"a">>],
            [id |-> 2, owner_id |-> 2, created_at |-> 2, name |-> <<"a">>],
            [id |-> 3, owner_id |-> 1, created_at |-> 3,
             name |-> <<"b", " ", "c">>]>>
    /\ out.content =
          <<"Stories by this author:", "\n",
            "\n", "* [", "b", " ", "c", "](", "url", "3", ")",
            "\n", "* [", "a", "](", "url", "1", ")">>

\* C21 as stated: for a user who owns no thread of the story forum,
\* _generate_content returns exactly "Stories by this author: none yet."
\* (the sentence that Profile.update then posts to a profile thread without
\* a message of the bot).
C21_Placeholder ==
    (out.fn = "_generate_content" /\ OwnedPlaces(inp.forum, inp.user) = {})
        => out.content = <<"Stories by this author: none yet.">>

\* the forum of test_generate_content_none, one thread of another user:
\* the content is the other sentence
C21_Witness ==
    /\ out.fn = "_generate_content"
    /\ inp.user = 1
    /\ inp.forum =
          <<[id |-> 1, owner_id |-> 2, created_at |-> 1, name |-> <<"a">>]>>
    /\ out.content = <<"This author hasn't posted any stories yet. Links to the stories will appear here if they do.">>

(***************************************************************************)
(* Further properties of the bot (specification Spec).                     *)
(***************************************************************************)
\* no two invocations are inside process_profile for one user
C22_OneAtATime ==
    \A k, l \in Tasks :
        (k # l /\ InProcessProfile(k) /\ InProcessProfile(l))
            => task[k].user # task[l].user

\* process_profile finds the user id in the set: it returns at once, to
\* process_story or to the end of the event handler
C22_Dropped(k) ==
    (At(k, "process_profile") /\ task[k].user \in _processing_profiles
        /\ task'[k] # task[k])
    => /\ OnlyOwnRecord(k)
       /\ task'[k].pc = IF task[k].kind \in StoryKinds
                        THEN "process_story_finally" ELSE "done"
       /\ task'[k].exc = "none"

\* process_profile does not find the user id in the set: it enters, whoever
\* else is in the set
C22_Admitted(k) ==
    (At(k, "process_profile") /\ task[k].user \notin _processing_profiles
        /\ task'[k] # task[k])
    => /\ task'[k].pc = "await_find_profile"
       /\ task'[k].user = task[k].user
       /\ _processing_profiles' = _processing_profiles \cup {task[k].user}

\* C22: for each user id at most one invocation of process_profile, called
\* from a profile event or from process_story, is between the insertion of
\* the id into _processing_profiles and its removal; an invocation that
\* finds the id in the set returns at once, reading and writing nothing of
\* the platform, and is not taken up again; one that does not find it
\* enters, whatever other ids are in the set.
C22_PerUserMutualExclusion ==
    /\ []C22_OneAtATime
    /\ [][\A k \in Tasks : C22_Dropped(k) /\ C22_Admitted(k)]_vars

\* process_story is back from a process_profile that was dropped: another
\* invocation is inside process_profile for the same user
C22_Witness ==
    \E k, l \in Tasks :
        /\ k # l
        /\ At(k, "process_story_finally") /\ task[k].exc = "none"
        /\ InProcessProfile(l)
        /\ task[l].user = task[k].user

\* reachable as well: two invocations are inside process_profile at once,
\* for different users
C22_DifferentUsers ==
    \E k, l \in Tasks :
        /\ InProcessProfile(k) /\ InProcessProfile(l)
        /\ task[k].user # task[l].user

(***************************************************************************)
(* Further properties of StoryFile (specification StoryFileSpec).          *)
(***************************************************************************)
\* C23 as stated: _raw_wordcount raises the tagged error, DiscordException,
\* for a content type it does not support, for text bytes that do not
\* decode as UTF-8 and for a malformed PDF stream, and raises no exception
\* of another type.
C23_TaggedErrors ==
    out.fn = "_raw_wordcount"
        => /\ inp.content_type \notin WORDCOUNT_CONTENT_TYPES
                 => out.exc = "DiscordException"
           /\ (inp.content_type = "text/plain" /\ ~out.data.utf8)
                 => out.exc = "DiscordException"
           /\ (inp.content_type = "application/pdf" /\ ~out.data.pdf)
                 => out.exc = "DiscordException"
           /\ out.exc \in {"none", "DiscordException"}

\* the bytes of a text/plain file did not decode: UnicodeDecodeError
C23_Witness ==
    /\ out.fn = "_raw_wordcount"
    /\ inp.content_type = "text/plain"
    /\ out.data = Garbage
    /\ out.exc = "UnicodeDecodeError"

(***************************************************************************)
(* Properties of the download (specification FetchSpec).                   *)
(***************************************************************************)
\* the address the owner of thread 1 posted
FetchedUrl == history[1][1].content[1]

\* C24 as stated: for a link and for a Google document, every failure of
\* the GET (an exception of the transport, a status that is not 2xx) ends
\* update with DiscordException, raised to its caller; and the body of a
\* response whose status is not 2xx is never counted: no rename follows it.
C24_FetchFailures ==
    \A k \in Tasks :
        LET t == task[k]
        IN  t.kind = "StoryThread.update"
            => /\ (t.pc = "done" /\ t.failed) => t.exc = "DiscordException"
               /\ FetchedUrl.data.status \notin 200..299
                     => /\ t.pc \notin {"await_unarchive", "await_edit",
                                         "await_rearchive"}
                        /\ t.pc = "done" => t.exc = "DiscordException"
                        /\ name[1] = name0[1]

\* the server answered the GET with status 300, and update renamed the
\* thread after the words of that answer
C24_Witness ==
    \E k \in Tasks :
        /\ task[k].kind = "StoryThread.update"
        /\ task[k].pc = "done" /\ task[k].exc = "none"
        /\ FetchedUrl.data.status = 300
        /\ name[1] = <<"a", " ">> \o Marker(1000)

\* what holds instead: a status of 400 or more, or an exception of the
\* transport, ends update with DiscordException and without a rename
C24_ErrorStatus ==
    \A k \in Tasks :
        LET t == task[k]
        IN  t.kind = "StoryThread.update"
            => /\ (t.pc = "done" /\ t.failed) => t.exc = "DiscordException"
               /\ FetchedUrl.data.status >= 400
                     => /\ t.pc \notin {"await_unarchive", "await_edit",
                                         "await_rearchive"}
                        /\ t.pc = "done" => t.exc = "DiscordException"
                        /\ name[1] = name0[1]

(***************************************************************************)
(* Properties of the answer to a refresh (specification Spec).             *)
(***************************************************************************)
\* the answer process_all_stories' result asks for: the stories that raised
\* DiscordException were counted
Reported(t) == IF t.failures > 0 THEN "error" ELSE "success"

\* the manual refresh: its answer while it is sent and once it was sent; the
\* error handler answers with the error response when a story ended the
\* loop with an exception that is no DiscordException, or when a call of the
\* refresh itself (the warning, the deferral, the listing, the answer)
\* raised; the scheduled refresh has no answer at all
C25_Answer ==
    \A k \in Tasks :
        LET t == task[k]
        IN  /\ t.kind = "refresh"
               => /\ t.pc = "await_respond" => t.response = Reported(t)
                  /\ (t.pc = "refresh_finally" /\ t.exc = "none")
                        => t.response = Reported(t)
                  /\ t.pc = "await_refresh_error"
                        => /\ t.response = "error"
                           /\ t.exc \in {"DiscordException",
                                         "UnicodeDecodeError"}
                  /\ t.pc = "await_warning"
                        => t.response = "warning" /\ t.attempted = {}
                  /\ t.response = "warning" => t.pc = "await_warning"
                  /\ t.pc \notin {"await_respond", "refresh_finally",
                                  "await_refresh_error", "await_warning"}
                        => t.response = "none"
            /\ t.kind = "refresh_cron"
               => /\ t.response = "none"
                  /\ t.pc \notin {"await_warning", "await_defer",
                                  "await_respond", "await_refresh_error"}

\* the warning was sent: the skipped refresh is over; the answer was sent:
\* nothing follows it but the reset of the flag
C25_Only(k) ==
    LET t == task[k]
    IN  /\ (t.pc = "await_warning" /\ task'[k] # t /\ task'[k].exc = "none")
           => task'[k].pc = "done"
        /\ (t.kind = "refresh" /\ t.pc = "refresh_finally" /\ t.exc = "none"
               /\ task'[k] # t)
           => task'[k].pc = "done"

C25_Handler ==
    \E k \in Tasks :
        /\ task[k].kind = "refresh" /\ task[k].pc = "await_refresh_error"
        /\ task[k].exc = "UnicodeDecodeError"

(***************************************************************************)
(* Properties of the log context (specification LogSpec).                  *)
(***************************************************************************)
\* the segments joined by ": ", outermost first
RECURSIVE Join(_)
Join(segments) ==
    IF segments = <<>> THEN <<>>
    ELSE IF Len(segments) = 1 THEN <<segments[1]>>
    ELSE Join(SubSeq(segments, 1, Len(segments) - 1))
            \o <<": ", segments[Len(segments)]>>

\* in every task, whatever the tasks did so far, the value of _log_context
\* is the join of the segments of the blocks the task is inside: leaving a
\* block, normally or by an exception, puts back the value the block was
\* entered with
C26_Scoped ==
    \A k \in LogTasks : _log_context[copy_context(k)] = Join(Active(k))

\* a message is logged behind the segments of the blocks of its own task
C26_Prefixed ==
    log.task # 0
        => log.text = IF log.active = <<>> THEN <<log.msg>>
                      ELSE Join(log.active) \o <<": ", log.msg>>

\* a step of one task leaves the value of every other task as it is
C26_Local(k) ==
    task'[k] # task[k]
        => \A l \in LogTasks \ {k} :
              _log_context'[copy_context(l)] = _log_context[copy_context(l)]

\* C26: inside nested LogContext blocks (fresh objects, segments that are
\* not empty) a message is logged behind the active segments joined by
\* ": ", outermost first; leaving a block, normally or by an exception,
\* restores the prefix of the entry; and with the steps of two tasks
\* interleaved in any way, a context one task entered never shows in the
\* prefix of the other.
C26_LogContext ==
    /\ []C26_Scoped
    /\ []C26_Prefixed
    /\ [][\A k \in LogTasks : C26_Local(k)]_vars

\* task 1 logged inside context2 inside context1 while task 2 is inside
\* context3 and an exception is leaving that block
C26_Witness ==
    /\ log.task = 1
    /\ log.text = <<"context1", ": ", "context2", ": ", "baz">>
    /\ Active(1) = <<"context1">>
    /\ Active(2) = <<"context3">> /\ task[2].pc = "raise"

(***************************************************************************)
(* Properties of the temporary files (specification TempSpec).             *)
(***************************************************************************)
\* C27: the temporary file a call of Story.wordcount created is gone once
\* the call has ended, however it ended (a count returned, the download
\* failed, the helper did not start, ended with a non-zero code or printed
\* what is no number or a negative one, the task was cancelled); the files
\* on the disk are those of the calls under way.
C27_TempFileCleanup ==
    /\ \A k \in Tasks :
          task[k].pc = "done" => task[k].created \notin files
    /\ files = {task[k].created :
                   k \in {l \in Tasks : /\ task[l].created # NoFile
                                        /\ task[l].pc # "done"}}

\* one call ended with the ValueError of a negative count and another with
\* a count, both had created their file, and no file is left
C27_Witness ==
    \E k, l \in Tasks :
        /\ task[k].pc = "done" /\ task[k].exc = "ValueError"
        /\ task[k].created # NoFile
        /\ task[l].pc = "done" /\ task[l].exc = "none"
        /\ task[l].wordcount = 1200 /\ task[l].created # NoFile
        /\ files = {}

(***************************************************************************)
(* Properties of the refresh flag (specification Spec).                    *)
(***************************************************************************)
\* refresh k has set the flag and its finally clause has not run yet
HoldsFlag(k) ==
    /\ task[k].kind \in RefreshKinds
    /\ task[k].pc \notin {"idle", "done", "await_warning",
                          "await_refresh_error"}

\* the flag is up exactly while the refresh that set it is under way
C28_FlagHeld ==
    /\ _processing_refresh <=> \E k \in Tasks : HoldsFlag(k)
    /\ \A k, l \in Tasks : (HoldsFlag(k) /\ HoldsFlag(l)) => k = l

\* the refresh that set the flag ends, with or without an exception: the
\* flag is down
C28_Reset(k) ==
    (HoldsFlag(k) /\ ~HoldsFlag(k)')
        => /\ task[k].pc = "refresh_finally"
           /\ ~_processing_refresh'

\* a refresh starts while the flag is down: the same step sets it, and
\* the refresh runs
C28_Runs(k) ==
    (task[k].kind = "idle" /\ task'[k].kind \in RefreshKinds
        /\ ~_processing_refresh)
        => _processing_refresh' /\ HoldsFlag(k)'

\* C28: the refresh, manual or scheduled, that set _processing_refresh
\* resets it when it ends, whether process_all_stories returned, counted
\* failures or raised; the flag is tested and set in one step; so the flag
\* is up only while a refresh is under way, and a refresh that starts after
\* the refreshes before it have ended runs.
C28_FlagCleanup ==
    /\ []C28_FlagHeld
    /\ [][\A k \in Tasks : C28_Reset(k) /\ C28_Runs(k)]_vars

\* a manual refresh raised (its error handler is answering), and a refresh
\* that started after it is past the flag and at work
C28_Witness ==
    \E k, l \in Tasks :
        /\ task[k].kind = "refresh" /\ task[k].pc = "await_refresh_error"
        /\ task[k].exc = "UnicodeDecodeError"
        /\ HoldsFlag(l) /\ task[l].pc = "process_story"

(***************************************************************************)
(* Properties of the resolution on long threads (specification LongSpec).  *)
(***************************************************************************)
\* message i of thread 1 is the owner's and holds an eligible candidate
OwnerEligible(i) ==
    LET m == history[1][i]
    IN  /\ m.author = owner_id(1)
        /\ \E j \in 1..Len(candidates(m)) :
              candidate_can_wordcount(candidates(m)[j])

\* the update chose a source: it asked for its download
Chose(t) == \E n \in 1..Len(t.requests) : t.requests[n].method = "download"

\* C29 as stated: for a history of any length, an update in which no call
\* raised ends without a source only if no message of the owner anywhere
\* in the history holds an eligible candidate; when one does, however far
\* down, a source is chosen.
C29_Exhaustive ==
    \A k \in Tasks :
        LET t == task[k]
        IN  (t.kind = "StoryThread.update" /\ t.pc = "done" /\ ~t.failed)
            => (Chose(t) <=> \E i \in 1..Len(history[1]) : OwnerEligible(i))

\* the owner's text file is message 101 of the thread: the update returned
\* without an exception, asked for no download and left the name
C29_Witness ==
    \E k \in Tasks :
        /\ task[k].kind = "StoryThread.update" /\ task[k].pc = "done"
        /\ task[k].exc = "none" /\ task[k].requests = <<>>
        /\ Len(history[1]) = DefaultLimit + 1
        /\ OwnerEligible(DefaultLimit + 1)
        /\ name[1] = name0[1]

\* what holds instead: the resolution is exhaustive over the DefaultLimit
\* oldest messages
C29_WithinLimit ==
    \A k \in Tasks :
        LET t == task[k]
        IN  (t.kind = "StoryThread.update" /\ t.pc = "done" /\ ~t.failed)
            => (Chose(t) <=> \E i \in 1..Len(history[1]) :
                                i <= DefaultLimit /\ OwnerEligible(i))

(***************************************************************************)
(* Properties of the requests of an update (specification ResolveSpec).    *)
(***************************************************************************)
\* the candidate a request is about
Requested(t, r) == candidates(history[t.thread][r.i])[r.j]

\* the requests of one update: a HEAD only to a link; a download only as
\* the last request, only of a candidate of the owner that can be counted,
\* and, when that candidate is a link, right after the HEAD to it
C30_Requests(t) ==
    \A n \in 1..Len(t.requests) :
        LET r == t.requests[n]
            c == Requested(t, r)
        IN  /\ r.method \in {"HEAD", "download"}
            /\ r.method = "HEAD" => c.kind = "link"
            /\ r.method = "download"
                  => /\ n = Len(t.requests)
                     /\ history[t.thread][r.i].author = owner_id(t.thread)
                     /\ candidate_can_wordcount(c)
                     /\ c.kind = "link"
                           => /\ n > 1
                              /\ t.requests[n - 1] = Request("HEAD", r.i, r.j)

\* C30: within one update a link is judged by a HEAD request; a download
\* is asked only of the one source the resolution chose, after it was
\* found eligible: no candidate that is not eligible or not chosen is
\* downloaded, and there is at most one download.
C30_ProbeBeforeDownload ==
    \A k \in Tasks :
        task[k].kind = "StoryThread.update" => C30_Requests(task[k])

\* the owner posted the address of a web page and then that of a text
\* file: a HEAD to each, and the one download is that of the text file
C30_Witness ==
    \E k \in Tasks :
        LET t == task[k]
        IN  /\ t.kind = "StoryThread.update" /\ t.pc = "done"
            /\ t.exc = "none"
            /\ t.requests = <<Request("HEAD", 1, 1), Request("HEAD", 1, 2),
                               Request("download", 1, 2)>>
            /\ Requested(t, t.requests[1]) = from_url(HtmlUrl)
            /\ Requested(t, t.requests[3]) = from_url(TextUrl)

(***************************************************************************)
(* Properties of the counts update writes (specification UpdateSpec).      *)
(***************************************************************************)
\* a count as update writes it
RoundedCount(n) ==
    /\ n >= 100
    /\ n % 100 = 0
    /\ n >= 1000 => n % 1000 = 0

\* C31: the name of every rename that StoryThread.update issues ends with a
\* marker, whose count is the one handed to _set_wordcount, is at least 100,
\* a multiple of 100 and, from 1000 on, a multiple of 1000; so no rename of
\* update takes a marker away.
C31_WrittenCountsRounded ==
    \A k \in Runs :
        LET t == task[k]
            written == _parse_name(t.new_name)
        IN  t.pc \in {"await_unarchive", "await_edit"}
               => /\ RoundedCount(t.wordcount)
                  /\ ~written.raised
                  /\ written.wordcount = t.wordcount
                  /\ t.new_name =
                        new_title(written.title, t.wordcount)

\* a thread named with the marker of 100 words is being renamed after a
\* file of 2500 words: to 2000 words
C31_Witness ==
    \E k \in Runs :
        /\ task[k].pc = "await_edit"
        /\ CountOf(name[1]) = 100
        /\ history[1] = LongStoryHistory(owner_id(1))
        /\ task[k].wordcount = 2000
        /\ _parse_name(task[k].new_name).wordcount = 2000

(***************************************************************************)
(* Properties of the bot among its own events (specifications EventSpec    *)
(* and FairEventSpec).                                                     *)
(***************************************************************************)
\* the steps that a handler takes without awaiting an answer
LocalStep(k) ==
    \/ process_story(k)
    \/ process_story_finally(k)
    \/ process_profile(k)
    \/ process_profile_finally(k)

\* the gateway dispatches a pending event; the event loop goes on with the
\* task that holds it; every call of the platform and of HTTP returns or
\* raises, so that no task awaits for ever
FairEventSpec ==
    /\ EventSpec
    /\ WF_vars(\E k \in Tasks : \E th \in AllThreads : on_thread_update(k, th))
    /\ \A k \in Tasks :
          /\ WF_vars(LocalStep(k))
          /\ []<>(task[k].pc \notin AwaitPcs)

\* no event is pending and no handler is under way
Quiescent ==
    /\ \A th \in AllThreads : events.pending[th] = 0
    /\ \A k \in Tasks : task[k].pc \in {"idle", "done"}

\* the name of story thread th carries the count of its file
Settled(th) == CountOf(name[th]) = 100

\* each story thread is renamed at most once: only away from the name it
\* had at the start
RenamedOnce ==
    [][\A th \in StoryThreads :
          name'[th] # name[th] => name[th] = name0[th] /\ ~Settled(th)]_vars

\* a run for a thread that carries its count is a no-op: the thread is not
\* renamed and not un-archived (the run that renamed it may re-archive it)
SettledNoOp ==
    [][\A th \in StoryThreads :
          Settled(th) => /\ name'[th] = name[th]
                         /\ archived'[th] # archived[th] => archived'[th]]_vars

\* after one event of a user, the message of each profile thread is posted
\* or edited at most once
WrittenOnce ==
    [][\A p \in ProfileThreads :
          events.external = 1 /\ messages'[p] # messages[p]
             => messages[p] = ForumMessages(p)]_vars

ProfileContent ==
    LET m == _find_message(messages[11])
    IN  IF m.exists THEN m.content ELSE <<>>

\* every story thread of user 1 carries the count of its file: the updates
\* that the events started have renamed them
StoriesSettled == \A th \in StoryThreads : owner_id(th) = 1 => Settled(th)

\* C33: once every process_story and process_profile that the changes of a
\* user's story threads triggered has ended and no event is pending, the
\* bot's message in the user's profile thread is the content generated from
\* the present names of the user's story threads, however the updates of
\* several threads of the user interleave.
C33_ProfileReflectsStories ==
    Quiescent /\ StoriesSettled
       => ProfileContent = _generate_content(_story_forum, 1)

\* both stories of user 1 were renamed and nothing is pending or running,
\* but the profile message of user 1, rewritten by the bot, lists a story
\* under the name it had before its rename
C33_Witness ==
    /\ Quiescent /\ StoriesSettled
    /\ \A th \in StoryThreads : owner_id(th) = 1 => name[th] # name0[th]
    /\ ProfileContent # _generate_content(_story_forum, 1)
    /\ ProfileContent # StaleMessage.content
    /\ ProfileContent # <<>>

(***************************************************************************)
(* Properties of process_story's call of process_profile (specification    *)
(* EventSpec).                                                             *)
(***************************************************************************)
\* process_story of task record t is inside StoryThread.update
InUpdate(t) ==
    /\ t.kind \in StoryKinds
    /\ \/ t.pc \in {"await_history", "await_head", "await_download",
                    "await_edit"}
       \/ /\ t.pc \in {"await_unarchive", "await_rearchive"}
          /\ t.target \in StoryThreads

\* process_story of task record t is inside its call of process_profile
InNestedProfile(t) ==
    /\ t.kind \in StoryKinds
    /\ \/ t.pc \in {"process_profile", "await_find_profile",
                    "await_find_message", "await_generate_content",
                    "await_message_edit", "await_send",
                    "process_profile_finally"}
       \/ /\ t.pc \in {"await_unarchive", "await_rearchive"}
          /\ t.target \in ProfileThreads

\* the step in which StoryThread.update ends: process_profile is next when
\* it returned, the finally clause of process_story when it raised
AfterUpdate(k) ==
    (InUpdate(task[k]) /\ ~InUpdate(task'[k]))
       => /\ task'[k].thread = task[k].thread
          /\ IF task'[k].exc = "none"
             THEN /\ task'[k].pc = "process_profile"
                  /\ task'[k].user = owner_id(task[k].thread)
             ELSE task'[k].pc = "process_story_finally"

\* process_story enters process_profile from StoryThread.update only, and
\* from the finally clause of process_story it goes nowhere but out
ProfileAfterUpdateOnly(k) ==
    /\ (~InNestedProfile(task[k]) /\ InNestedProfile(task'[k]))
          => InUpdate(task[k]) /\ task'[k].exc = "none"
    /\ (task[k].kind \in StoryKinds /\ task[k].pc = "process_story_finally")
          => ~InNestedProfile(task'[k]) /\ ~InUpdate(task'[k])

\* C34: process_story calls process_profile for the owner of the thread if
\* and only if StoryThread.update returned, and once update is over; when
\* update raises, the invocation attempts no profile update; the thread id
\* is in _processing_stories as long as the nested profile update lasts.
C34_StoryThenProfile ==
    /\ [][\A k \in Tasks : AfterUpdate(k) /\ ProfileAfterUpdateOnly(k)]_vars
    /\ [](\A k \in Tasks :
            InNestedProfile(task[k])
               => /\ task[k].thread \in _processing_stories
                  /\ task[k].user = owner_id(task[k].thread))

\* a handler found nothing to count in thread 1, whose name it left alone,
\* and is inside the profile update of the owner, holding the thread
C34_Witness ==
    \E k \in Tasks :
        /\ InNestedProfile(task[k])
        /\ task[k].pc = "await_generate_content"
        /\ task[k].thread = 1
        /\ history[1] = EmptyHistory(owner_id(1))
        /\ name[1] = name0[1]
        /\ 1 \in _processing_stories

(***************************************************************************)
(* Properties of a StoryThread.update that fails (specification            *)
(* UpdateSpec).                                                            *)
(***************************************************************************)
\* update is resolving, downloading or counting: _set_wordcount has not
\* reached its edits
ResolvePcs == {"await_history", "await_head", "await_download"}

\* the step of run k from a place before the edits
BeforeEdits(k) ==
    /\ task[k].kind = "StoryThread.update"
    /\ task[k].pc \in ResolvePcs
    /\ task'[k] # task[k]

\* run k fails in this step: in the resolution, the download or the count,
\* or because the name of the thread does not parse
FailsBeforeEdits(k) ==
    BeforeEdits(k) /\ task'[k].pc = "done" /\ task'[k].exc # "none"

\* C35: when the resolution, the download or the count fails in update, or
\* the name of the thread does not parse, update issues no rename and no
\* edit of the archived flag: from its start to the failure, the name and
\* the flag of the thread are not changed; a thread whose name does not
\* parse is never edited, whatever was counted.
C35_StateUnchangedOnFailure ==
    [][\A k \in Tasks :
          /\ BeforeEdits(k)
                => /\ name' = name /\ archived' = archived
                   /\ task'[k].calls = <<>>
          /\ FailsBeforeEdits(k)
                => /\ stats'[task[k].thread].renames
                         = stats[task[k].thread].renames
                   /\ \A l \in Tasks :
                         l # k => task[l].pc \in {"idle", "done"}
          /\ (BeforeEdits(k) /\ _parse_name(name[task[k].thread]).raised)
                => task'[k].pc \in ResolvePcs \cup {"done"}
          /\ (BeforeEdits(k) /\ task'[k].pc = "done"
                 /\ _parse_name(name[task[k].thread]).raised
                 /\ Len(task'[k].requests) > 0
                 /\ task'[k].requests[Len(task'[k].requests)].method
                       = "download"
                 /\ ~task'[k].failed)
                => task'[k].exc # "none"]_vars

\* the file of an archived thread was downloaded and counted, the name of
\* the thread did not parse, and update raised: no call was issued, and the
\* thread has the name it had and is archived
C35_Witness ==
    \E k \in Runs :
        /\ task[k].pc = "done" /\ task[k].exc = "DiscordException"
        /\ ~task[k].failed
        /\ Len(task[k].requests) > 0
        /\ task[k].requests[Len(task[k].requests)].method = "download"
        /\ _parse_name(name[1]).raised
        /\ task[k].calls = <<>>
        /\ name = name0 /\ archived[1]
        /\ stats[1].renames = 0

(***************************************************************************)
(* Properties of a resolution that fails (specification ResolveSpec).      *)
(***************************************************************************)
\* the history of the thread of t holds, after the candidate of request r,
\* a candidate of the owner that can be counted
LaterEligible(t, r) ==
    LET h == history[t.thread]
    IN  \E i \in r.i..Len(h) : \E j \in 1..Len(candidates(h[i])) :
            /\ i > r.i \/ j > r.j
            /\ h[i].author = owner_id(t.thread)
            /\ candidate_can_wordcount(candidates(h[i])[j])

LastRequest(t) == t.requests[Len(t.requests)]

\* the bytes of candidate c cannot be counted
Uncountable(c) == _raw_wordcount(candidate_content_type(c), c.data).exc # "none"

\* the step in which the HEAD request of run k raises: update is over with
\* that exception, and nothing further was requested
ProbeFails(k) ==
    (task[k].pc = "await_head" /\ task'[k] # task[k] /\ task'[k].failed)
       => /\ task'[k].pc = "done"
          /\ task'[k].exc = "DiscordException"
          /\ task'[k].requests = task[k].requests
          /\ task'[k].calls = <<>>

\* the step in which the download of run k answers: no request follows it,
\* and when the transport raised or the bytes cannot be counted update is
\* over with an exception
SourceFails(k) ==
    (task[k].pc = "await_download" /\ task'[k] # task[k])
       => /\ task'[k].requests = task[k].requests
          /\ (task'[k].failed \/ Uncountable(Requested(task[k],
                                                       LastRequest(task[k]))))
                => /\ task'[k].pc = "done"
                   /\ task'[k].exc # "none"
                   /\ task'[k].calls = <<>>

\* a Google document is asked for nothing but its download
DocsUnprobed(t) ==
    \A n \in 1..Len(t.requests) :
        Requested(t, t.requests[n]).kind = "google doc"
           => t.requests[n].method = "download"

\* C36: when the HEAD request to a URL raises, or the download or the count
\* of the chosen source fails, update fails with that exception and no later
\* candidate is requested, whether or not one of them could be counted; an
\* address of a Google document is chosen without a request.
C36_NoFallback ==
    /\ [][\A k \in Tasks :
            task[k].kind = "StoryThread.update"
               => ProbeFails(k) /\ SourceFails(k)]_vars
    /\ [](\A k \in Tasks :
            task[k].kind = "StoryThread.update" => DocsUnprobed(task[k]))

\* the HEAD request to the first URL of the owner's message raised and
\* update failed, with that one request, although the second URL of the
\* message is the address of a Google document
C36_Witness ==
    \E k \in Runs :
        LET t == task[k]
        IN  /\ t.pc = "done" /\ t.exc = "DiscordException" /\ t.failed
            /\ t.requests = <<Request("HEAD", 1, 1)>>
            /\ LaterEligible(t, t.requests[1])
            /\ Len(candidates(history[1][1])) = 2
            /\ candidates(history[1][1])[2].kind = "google doc"
            /\ name = name0

\* reachable as well: the file that was chosen could not be decoded and
\* update failed, although the owner's next message links a text
C36_CountFails ==
    \E k \in Runs :
        LET t == task[k]
        IN  /\ t.pc = "done" /\ t.exc = "UnicodeDecodeError"
            /\ t.requests = <<Request("download", 1, 1)>>
            /\ LaterEligible(t, t.requests[1])

(***************************************************************************)
(* Properties of the bot's message in a profile thread (specification      *)
(* SiblingSpec).                                                           *)
(***************************************************************************)
\* C37: a profile thread that holds no message of the bot gets at most one,
\* however the invocations of process_profile and process_story for its
\* owner follow each other and interleave: no thread holds two messages of
\* the bot, and thread.send is awaited only for a thread that holds none.
C37_NoDuplicateProfileMessage ==
    /\ \A p \in ProfileThreads : Cardinality(BotMessages(messages[p])) <= 1
    /\ \A k \in Tasks :
          task[k].pc = "await_send"
             => BotMessages(messages[task[k].target]) = {}

\* the profile thread of user 1 held the user's message only; both stories
\* were renamed, every handler has ended, and the thread holds one message
\* of the bot, after the user's
C37_Witness ==
    /\ Quiescent /\ StoriesSettled
    /\ Len(messages[11]) = 2
    /\ messages[11][1] = OwnPost
    /\ BotMessages(messages[11]) = {2}

(***************************************************************************)
(* Properties of termination of the handlers and the refreshes             *)
(* (specification FairSpec).                                               *)
(***************************************************************************)
\* the steps that an invocation takes while it runs, without awaiting
RunningStep(k) == LocalStep(k) \/ refresh_finally(k)

\* the places where a running invocation stands between two awaits
RunningPcs ==
    {"process_story", "process_story_finally", "process_profile",
     "process_profile_finally", "refresh_finally"}

\* the event loop goes on with the invocation that runs, and every call of
\* the platform and of HTTP returns or raises, so that no invocation awaits
\* for ever
FairSpec ==
    /\ Spec
    /\ \A k \in Tasks :
          /\ WF_vars(RunningStep(k))
          /\ []<>(task[k].pc \notin AwaitPcs)

\* invocation k has been started
Started(k) == task[k].kind # "idle"

\* every invocation that was started has ended
AllEnded == \A k \in Tasks : Started(k) => task[k].pc = "done"

\* an invocation is suspended only in a call of the platform or of HTTP;
\* an invocation that runs always has a next step, whatever the guards hold
NeverWaits ==
    \A k \in Tasks :
        /\ running = k => task[k].pc \in RunningPcs /\ ENABLED RunningStep(k)
        /\ running # k => task[k].pc \in AwaitPcs \cup {"idle", "done"}

\* C38: when every call of the platform and of HTTP returns or raises,
\* every process_story, process_profile and refresh that was started ends;
\* when all of them have ended both guard sets are empty and
\* _processing_refresh is False; no invocation waits for a guard, so that
\* taking the profile guard while holding the story guard cannot deadlock.
C38_ProgressWithoutWaiting ==
    /\ \A k \in Tasks : Started(k) ~> task[k].pc = "done"
    /\ [](AllEnded => /\ _processing_stories = {}
                      /\ _processing_profiles = {}
                      /\ ~_processing_refresh)
    /\ []NeverWaits

\* two handlers hold the guards of two stories of user 1; one of them holds
\* the profile guard of user 1 and awaits in Profile.update, the other found
\* the profile guard held and went on to its finally clause
C38_Witness ==
    \E k, l \in Tasks :
        /\ task[k].guarded /\ task[l].guarded
        /\ task[k].thread # task[l].thread
        /\ task[k].user = 1 /\ task[k].user \in _processing_profiles
        /\ task[k].pc = "await_generate_content"
        /\ At(l, "process_story_finally") /\ owner_id(task[l].thread) = 1

(***************************************************************************)
(* Properties of the listeners (specification RouteSpec).                  *)
(***************************************************************************)
ThreadEvents == {"thread_create", "thread_update"}

MessageEvents == {"message", "message_edit"}

\* event e is of a message in a story thread whose author owns the thread
ByOwner(e) == e.channel \in StoryThreads /\ e.author = owner_id(e.channel)

\* C39: an event of a thread starts process_story for the thread exactly
\* when the thread is in the story forum, process_profile for the thread's
\* owner exactly when it is in the profile forum, and nothing otherwise; an
\* event of a message starts process_story for its thread only when the
\* thread is in the story forum and the author is the thread's owner (a
\* posted message: exactly then), it never starts process_profile, and a
\* message of another user or of the bot starts nothing.
C39_EventRouting ==
    \A k \in Tasks :
        LET e == inp[k]
            t == task[k]
        IN  /\ e.type = "none" <=> t.kind = "idle"
            /\ t.kind \in {"idle", "story_event", "profile_event",
                           "ignored_event"}
            /\ e.type \in ThreadEvents =>
                  /\ t.kind = "story_event" <=> e.channel \in StoryThreads
                  /\ t.kind = "profile_event" <=> e.channel \in ProfileThreads
            /\ e.type \in MessageEvents =>
                  /\ t.kind = "story_event" => ByOwner(e)
                  /\ t.kind # "profile_event"
            /\ e.type = "message" /\ ByOwner(e) => t.kind = "story_event"
            /\ e.type = "message_edit" /\ ByOwner(e) /\ ~e.raised
                  => t.kind = "story_event"
            /\ t.kind = "story_event" /\ t.pc # "done"
                  => t.thread = e.channel
            /\ t.kind = "profile_event" /\ t.pc # "done"
                  => t.user = ProfileThread(e.channel).owner_id
            /\ t.kind = "ignored_event" => t.pc = "done"

\* the owner of story thread 1 posted a message there, which started
\* process_story for thread 1; then the bot's own message in the same thread
\* and started nothing
C39_Witness ==
    /\ inp[1].type = "message" /\ inp[1].channel = 1 /\ inp[1].author = 1
    /\ task[1].kind = "story_event"
    /\ inp[2].type = "message" /\ inp[2].channel = 1
    /\ inp[2].author = BotUser
    /\ task[2].kind = "ignored_event"

====
